---- MODULE Spec2Model ----
(***************************************************************************)
(* A model of the trade-alert bot's signal evaluation.                     *)
(*                                                                         *)
(*   EnhancedStrategyEngine (enhanced_strategy_engine.py): the alert-state *)
(*   machine of the three check_* methods, their gates, filters, signal    *)
(*   blocks and reset blocks.                                              *)
(*   AggressiveMomentumStrategy / ModerateEMAStrategy (strategies/): the   *)
(*   modular check_signal methods and the statistics format_signal keeps.  *)
(*                                                                         *)
(* The clock is the wall clock in whole minutes since midnight UTC of the  *)
(* day the process started; datetime.now() and datetime.utcnow() read it.  *)
(* The exchange's candles and the indicator library are the environment:   *)
(* each evaluation draws the indicator-enriched table it sees from a small *)
(* set of tables, and the comparisons are made as Python makes them (every *)
(* ordering comparison with NaN is False).                                 *)
(***************************************************************************)
EXTENDS Integers, Sequences, FiniteSets, TLC

VARIABLES
    component,      \* which object this behaviour exercises
    now,            \* the wall clock, minutes
    start,          \* the clock when the object was constructed
    alert_states,   \* EnhancedStrategyEngine.alert_states
    last_emit,      \* history: the time of the last signal per (strategy, direction)
    stats,          \* BaseStrategy.signals_generated / last_signal_time per class
    last,           \* the last call: what it was given and what it returned
    calc,           \* one call of a pure helper: its arguments and its result
    risk_state,     \* EnhancedStrategyEngine.risk_state
    sweep,          \* the last check_all_strategies call: the calls it made, in order
    fetch,          \* one DataHandler.fetch_ohlcv call: its attempts and its outcome
    jobs,           \* the scheduler's strategy jobs: the runs in flight per strategy
    backtest,       \* the conservative backtest: its position, the current candle, the config's levels
    vercel,         \* VercelTradingBot and its trading_loop threads
    control,        \* the Telegram controller and the bot it controls
    strategy        \* AggressiveMomentumStrategy: params and required_columns

vars == <<component, now, start, alert_states, last_emit, stats, last, calc,
          risk_state, sweep, fetch, jobs, backtest, vercel, control, strategy>>

(* The variables the check_* and check_signal calls do not touch *)
others == <<calc, risk_state, sweep, fetch, jobs, backtest, vercel, control, strategy>>

(* The variables of the engine, of the strategy classes and of the clock *)
engine_state == <<component, now, start, alert_states, last_emit, stats, last, risk_state>>

---------------------------------------------------------------------------
(* Bounds of the model *)

MaxElapsed == 30        \* the clock runs for this many minutes after construction
TickMinutes == 15       \* the clock's granularity
MaxSignals == 2         \* signals_generated is followed up to this count

(* Program constants *)

ALERT_COOLDOWN_MINUTES == 30
MAX_CONCURRENT_TRADES == 2
TIME_START == 570               \* '09:30'
TIME_END == 960                 \* '16:00'
SESSION_START_HOUR == 12
SESSION_END_HOUR == 20
OVERSOLD_THRESHOLD == 10
OVERBOUGHT_THRESHOLD == 90
VOLUME_MULTIPLIER_X10 == 20     \* 2.0, in tenths
VOLATILITY_BP == 180            \* 0.018, in 1/10000
REQUIRED_VOLUME_SPIKE_X10 == 18 \* 1.8, in tenths
MIN_CANDLE_BODY_X1000 == 5      \* 0.005, in thousandths
RSI_BULLISH == 40
RSI_BEARISH == 60
ADX_THRESHOLD == 25
RSI_UPPER == 60
RSI_LOWER == 40
MIN_CANDLES == 50               \* len(df) < 50
MIN_CANDLES_CONSERVATIVE == 250 \* len(df) < 250
DIVERGENCE_MIN_INDEX == 20      \* current_index < 20

NaN == -1                       \* np.nan: no indicator value is negative
None == << >>                   \* Python's None for an optional time
Some(t) == <<t>>

Strategies == {"aggressive_momentum_ignition", "moderate_ema_crossover",
               "conservative_trend_rider"}
Directions == {"long", "short"}

(* The clock values at which an object may be constructed: 11:30 (inside the
   aggressive window, half an hour before the moderate session opens), 15:30
   (inside both) and 20:30 (outside the window, half an hour before the session
   closes). *)
StartTimes == {11 * 60 + 30, 15 * 60 + 30, 20 * 60 + 30}

---------------------------------------------------------------------------
(* Python's float comparisons: False whenever an operand is NaN *)

Gt(a, b) == a # NaN /\ b # NaN /\ a > b
Lt(a, b) == a # NaN /\ b # NaN /\ a < b
Ge(a, b) == a # NaN /\ b # NaN /\ a >= b
Le(a, b) == a # NaN /\ b # NaN /\ a <= b

---------------------------------------------------------------------------
(* EnhancedStrategyEngine: state and helpers *)

EngineInit ==
    [s \in Strategies |-> [long |-> FALSE, short |-> FALSE, last_alert_time |-> None]]

(* A faulty variant of _check_alert_cooldown: the cooldown never holds a
   signal back *)
CooldownAlwaysOver(as, profile, nowv) == TRUE

_check_alert_cooldown(as, profile, nowv) ==
    IF as[profile].last_alert_time = None
    THEN TRUE
    ELSE nowv - as[profile].last_alert_time[1] >= ALERT_COOLDOWN_MINUTES

Opposite(signal_type) == IF signal_type = "long" THEN "short" ELSE "long"

(* Faulty variants of _update_alert_state: one that leaves the opposite flag
   as it was, one that does not record the time, one that clears the opposite
   flag of every strategy *)
UpdateClearingEveryOpposite(as, profile, signal_type, nowv) ==
    LET a1 == [as EXCEPT ![profile][signal_type] = TRUE]
        a2 == [a1 EXCEPT ![profile].last_alert_time = Some(nowv)]
    IN  [s \in DOMAIN as |-> [a2[s] EXCEPT ![Opposite(signal_type)] = FALSE]]

UpdateKeepingOpposite(as, profile, signal_type, nowv) ==
    LET a1 == [as EXCEPT ![profile][signal_type] = TRUE]
    IN  [a1 EXCEPT ![profile].last_alert_time = Some(nowv)]

UpdateWithoutTime(as, profile, signal_type, nowv) ==
    LET a1 == [as EXCEPT ![profile][signal_type] = TRUE]
    IN  [a1 EXCEPT ![profile][Opposite(signal_type)] = FALSE]

_update_alert_state(as, profile, signal_type, nowv) ==
    LET a1 == [as EXCEPT ![profile][signal_type] = TRUE]
        a2 == [a1 EXCEPT ![profile].last_alert_time = Some(nowv)]
    IN  [a2 EXCEPT ![profile][Opposite(signal_type)] = FALSE]

_reset_alert_state(as, profile, signal_type) ==
    [as EXCEPT ![profile][signal_type] = FALSE]

MinuteOfDay(nowv) == nowv % (24 * 60)
HourOfDay(nowv) == (nowv \div 60) % 24

_check_time_filter(nowv) ==
    IF TIME_START <= TIME_END
    THEN TIME_START <= MinuteOfDay(nowv) /\ MinuteOfDay(nowv) <= TIME_END
    ELSE MinuteOfDay(nowv) >= TIME_START \/ MinuteOfDay(nowv) <= TIME_END

(* A faulty variant of _check_session_filter: the session never closes *)
SessionWithoutEnd(nowv) == SESSION_START_HOUR <= HourOfDay(nowv)

_check_session_filter(nowv) ==
    SESSION_START_HOUR <= HourOfDay(nowv) /\ HourOfDay(nowv) <= SESSION_END_HOUR

_check_volatility_blackout == FALSE

ActiveTrades(as) == Cardinality({s \in Strategies : as[s].long \/ as[s].short})

(* A faulty variant of _check_cross_strategy_risk_controls: the cap is reached
   one active strategy later *)
RiskControlsAboveCap(as) ==
    IF ActiveTrades(as) > MAX_CONCURRENT_TRADES THEN FALSE ELSE TRUE

_check_cross_strategy_risk_controls(as) ==
    IF ActiveTrades(as) >= MAX_CONCURRENT_TRADES
    THEN FALSE
    ELSE IF _check_volatility_blackout THEN FALSE ELSE TRUE

(* atr_percentage <= volatility_threshold, the ratio in 1/10000 *)
_check_volatility_filter(t) == Le(t.atr_bp, VOLATILITY_BP)

(* current_volume > avg_volume * multiplier, the multiplier in tenths *)
_check_volume_confirmation(t) ==
    Gt(t.volume * 10, t.avg_volume * VOLUME_MULTIPLIER_X10)

_check_volume_spike(t) ==
    Gt(t.volume * 10, t.avg_volume * REQUIRED_VOLUME_SPIKE_X10)

Abs(x) == IF x < 0 THEN -x ELSE x
Max2(a, b) == IF a > b THEN a ELSE b
Min2(a, b) == IF a < b THEN a ELSE b

_check_wick_confirmation(c) ==
    LET body_size == Abs(c.close - c.open)
        upper_wick == c.high - Max2(c.open, c.close)
        lower_wick == Min2(c.open, c.close) - c.low
    IN  IF c.close > c.open
        THEN lower_wick > upper_wick /\ lower_wick * 10 > body_size * 3
        ELSE upper_wick > lower_wick /\ upper_wick * 10 > body_size * 3

_check_candle_body_confirmation(c) ==
    LET body_size == Abs(c.close - c.open)
        total_range == c.high - c.low
    IN  IF total_range = 0
        THEN FALSE
        ELSE body_size * 1000 >= MIN_CANDLE_BODY_X1000 * total_range

(* The engine asks calculate_indicators for STOCHRSI only, so the table has no
   RSI_11 column: with 20 rows or more the lookup raises KeyError, which the
   method's own except turns into True. *)
_check_rsi_divergence(t, direction) ==
    IF t.enriched_rows - 1 < DIVERGENCE_MIN_INDEX THEN TRUE
    ELSE IF ~t.has_rsi_11 THEN TRUE
    ELSE IF direction = "bullish" THEN t.bullish_divergence
    ELSE t.bearish_divergence

---------------------------------------------------------------------------
(* The tables check_aggressive_momentum_ignition can be given.

   fetch          what DataHandler.fetch_ohlcv did: "raise" (every retry
                  failed), "none" (no data, or fewer than 2 candles), "ok"
   rows           candles fetched
   enriched_rows  rows left by calculate_indicators' dropna(how='all')
   has_columns    the STOCHRSIk/STOCHRSId columns are in the table
   prev, cur      %K and %D on the previous and on the current row
   volume, avg_volume, atr_bp, candle   what the filters read *)

StochPrev == { [k |-> 5, d |-> 8], [k |-> 8, d |-> 12],
               [k |-> 95, d |-> 92], [k |-> 95, d |-> 88] }
StochCur == { [k |-> 12, d |-> 9], [k |-> 9, d |-> 12],
              [k |-> 9, d |-> 9], [k |-> 12, d |-> NaN] }

WickBull == [open |-> 100, high |-> 103, low |-> 96, close |-> 102]
WickNone == [open |-> 100, high |-> 106, low |-> 99, close |-> 102]

AggressiveLive ==
    [fetch : {"ok"}, rows : {100}, enriched_rows : {100}, has_columns : {TRUE},
     has_rsi_11 : {FALSE}, bullish_divergence : {FALSE}, bearish_divergence : {FALSE},
     prev : StochPrev, cur : StochCur,
     volume : {21}, avg_volume : {10}, atr_bp : {180}, candle : {WickBull}]

(* A table on which every long condition of the aggressive strategy holds *)
AggressiveLongTable ==
    [fetch |-> "ok", rows |-> 100, enriched_rows |-> 100, has_columns |-> TRUE,
     has_rsi_11 |-> FALSE, bullish_divergence |-> FALSE, bearish_divergence |-> FALSE,
     prev |-> [k |-> 5, d |-> 8], cur |-> [k |-> 12, d |-> 9],
     volume |-> 21, avg_volume |-> 10, atr_bp |-> 180, candle |-> WickBull]

(* A table on which every short condition of the aggressive strategy holds *)
AggressiveShortTable ==
    [AggressiveLongTable EXCEPT !.prev = [k |-> 95, d |-> 92], !.cur = [k |-> 9, d |-> 12]]

(* Tables one filter rejects: the volume equal to twice the average, the ATR
   just above the cap, a candle without the confirming wick *)
AggressiveFiltered ==
    UNION { { [T EXCEPT !.volume = 20], [T EXCEPT !.atr_bp = 181],
              [T EXCEPT !.candle = WickNone] } :
            T \in {AggressiveLongTable, AggressiveShortTable} }

NoStoch == [k |-> NaN, d |-> NaN]

AggressiveDegenerate ==
    { [AggressiveLongTable EXCEPT !.fetch = "raise", !.rows = 0, !.enriched_rows = 0],
      [AggressiveLongTable EXCEPT !.fetch = "none", !.rows = 1, !.enriched_rows = 1],
      [AggressiveLongTable EXCEPT !.rows = 30, !.enriched_rows = 30],
      [AggressiveLongTable EXCEPT !.enriched_rows = 1],
      [AggressiveLongTable EXCEPT !.has_columns = FALSE, !.prev = NoStoch, !.cur = NoStoch],
      [AggressiveLongTable EXCEPT !.has_columns = FALSE, !.prev = NoStoch,
                                  !.cur = [k |-> 9, d |-> 12]] }

AggressiveTables == AggressiveLive \cup AggressiveFiltered \cup AggressiveDegenerate

(* A call's outcome: what it returned, the alert states it left, and the place
   it returned from. *)
NoSignal == [price |-> 0, stop_loss |-> 0, take_profit |-> 0]

Outcome(result, as, exit) ==
    [result |-> result, alert_states |-> as, exit |-> exit, signal |-> NoSignal]

(* The levels of a signal dict, in 1/10000 of the price unit *)
Signal(price, stop_loss, take_profit) ==
    [price |-> price, stop_loss |-> stop_loss, take_profit |-> take_profit]

(* A call's outcome when it returns the signal dict `sig` *)
Emitting(out, sig) == [out EXCEPT !.signal = sig]

(* Lines 413 and 426 (long), 466 and 479 (short) *)
AggressiveSignal(t, signal_type) ==
    IF signal_type = "long"
    THEN Signal(t.candle.close * 10000, t.candle.close * 9920, t.candle.close * 10150)
    ELSE Signal(t.candle.close * 10000, t.candle.close * 10080, t.candle.close * 9850)

(* The `if` of the long block, lines 395-411, and of the short block, 448-464 *)
AggressiveLongConditions(t) ==
    LET k_cross_above == Lt(t.prev.k, t.prev.d) /\ Gt(t.cur.k, t.cur.d)
        both_oversold == Lt(t.prev.k, OVERSOLD_THRESHOLD) /\ Lt(t.prev.d, OVERSOLD_THRESHOLD)
        volume_confirmed == _check_volume_confirmation(t)
        divergence_confirmed == _check_rsi_divergence(t, "bullish")
    IN  k_cross_above /\ both_oversold /\ volume_confirmed /\ divergence_confirmed

AggressiveShortConditions(t) ==
    LET k_cross_below == Gt(t.prev.k, t.prev.d) /\ Lt(t.cur.k, t.cur.d)
        both_overbought == Gt(t.prev.k, OVERBOUGHT_THRESHOLD) /\ Gt(t.prev.d, OVERBOUGHT_THRESHOLD)
        volume_confirmed == _check_volume_confirmation(t)
        divergence_confirmed == _check_rsi_divergence(t, "bearish")
    IN  k_cross_below /\ both_overbought /\ volume_confirmed /\ divergence_confirmed

(* Reading a STOCHRSI column of a table that has none raises KeyError, which the
   method's except turns into None. *)
(* A faulty variant: a missing column reads as NaN instead of raising *)
ColumnsAlwaysReadable(t) == TRUE

AggressiveColumnsReadable(t) == t.has_columns

(* The signal type the long block hands to _update_alert_state, line 439 *)
(* A faulty variant: the long block records the short direction *)
LongBlockUpdatesShort == "short"

AggressiveLongBlockUpdates == "long"

(* The reset block, lines 496-505: two ifs, one after the other *)
AggressiveResetBlock(as, t) ==
    LET S == "aggressive_momentum_ignition"
        a1 == IF as[S].long /\ ~Gt(t.cur.k, t.cur.d)
              THEN _reset_alert_state(as, S, "long") ELSE as
    IN  IF a1[S].short /\ ~Lt(t.cur.k, t.cur.d)
        THEN _reset_alert_state(a1, S, "short") ELSE a1

(* Lines 390-507: the long block, the short block, the reset block *)
AggressiveBlocks(as, nowv, t) ==
    LET S == "aggressive_momentum_ignition"
        long_entered == as[S].long = FALSE /\ _check_alert_cooldown(as, S, nowv)
        short_entered == as[S].short = FALSE /\ _check_alert_cooldown(as, S, nowv)
        reset_entered == as[S].long \/ as[S].short
    IN  IF long_entered /\ ~AggressiveColumnsReadable(t)
        THEN Outcome("None", as, "key_error")
        ELSE IF long_entered /\ AggressiveLongConditions(t)
        THEN Emitting(Outcome("long", _update_alert_state(as, S, AggressiveLongBlockUpdates, nowv),
                              "long"),
                      AggressiveSignal(t, "long"))
        ELSE IF short_entered /\ ~AggressiveColumnsReadable(t)
        THEN Outcome("None", as, "key_error")
        ELSE IF short_entered /\ AggressiveShortConditions(t)
        THEN Emitting(Outcome("short", _update_alert_state(as, S, "short", nowv), "short"),
                      AggressiveSignal(t, "short"))
        ELSE IF reset_entered /\ ~AggressiveColumnsReadable(t)
        THEN Outcome("None", as, "key_error")
        ELSE Outcome("None", AggressiveResetBlock(as, t), "reset")

check_aggressive_momentum_ignition(as, nowv, t) ==
    IF ~_check_cross_strategy_risk_controls(as) THEN Outcome("None", as, "risk")
    ELSE IF ~_check_time_filter(nowv) THEN Outcome("None", as, "time")
    ELSE IF t.fetch = "raise" THEN Outcome("None", as, "fetch_error")
    ELSE IF t.fetch = "none" \/ t.rows < MIN_CANDLES THEN Outcome("None", as, "data")
    ELSE IF t.enriched_rows < 2 THEN Outcome("None", as, "rows")
    ELSE IF ~_check_volatility_filter(t) THEN Outcome("None", as, "volatility")
    ELSE IF ~_check_wick_confirmation(t.candle) THEN Outcome("None", as, "wick")
    ELSE AggressiveBlocks(as, nowv, t)

---------------------------------------------------------------------------
(* The tables check_moderate_ema_crossover can be given: the 15m table and the
   current row of the 4h table. get_multi_timeframe_data leaves a timeframe out
   when its fetch returned None or raised; calculate_indicators assigns every
   EMA and RSI column, so none is missing. *)

EmaRows == { [ema_fast |-> 102, prev_ema_fast |-> 97, ema_slow |-> 100],
             [ema_fast |-> 102, prev_ema_fast |-> 103, ema_slow |-> 100],
             [ema_fast |-> 98, prev_ema_fast |-> 103, ema_slow |-> 100],
             [ema_fast |-> 100, prev_ema_fast |-> 97, ema_slow |-> 100] }

BodyBull == [open |-> 100, high |-> 103, low |-> 99, close |-> 102]
BodyBear == [open |-> 102, high |-> 103, low |-> 99, close |-> 100]
BodyDoji == [open |-> 100, high |-> 103, low |-> 99, close |-> 100]

ModerateLive ==
    [fetched : {{"15m", "4h"}}, rows_15m : {200}, rows_4h : {200},
     enriched_15m : {200}, enriched_4h : {151},
     ema : EmaRows, rsi : {NaN, 30, 70}, trend_ema : {99, 103},
     candle : {BodyBull, BodyBear},
     volume : {19}, avg_volume : {10}]

(* A table on which every long condition of the moderate strategy holds *)
ModerateLongTable ==
    [fetched |-> {"15m", "4h"}, rows_15m |-> 200, rows_4h |-> 200,
     enriched_15m |-> 200, enriched_4h |-> 151,
     ema |-> [ema_fast |-> 102, prev_ema_fast |-> 97, ema_slow |-> 100],
     rsi |-> 70, trend_ema |-> 99, candle |-> BodyBull,
     volume |-> 19, avg_volume |-> 10]

(* A table on which every short condition of the moderate strategy holds *)
ModerateShortTable ==
    [ModerateLongTable EXCEPT !.ema = [ema_fast |-> 98, prev_ema_fast |-> 103, ema_slow |-> 100],
                              !.rsi = 30, !.trend_ema = 103, !.candle = BodyBear]

(* Tables one filter rejects: a candle without a body, the volume equal to 1.8
   times the average *)
ModerateFiltered ==
    UNION { { [T EXCEPT !.candle = BodyDoji], [T EXCEPT !.volume = 18] } :
            T \in {ModerateLongTable, ModerateShortTable} }

ModerateDegenerate ==
    { [ModerateLongTable EXCEPT !.fetched = {"15m"}, !.rows_4h = 0, !.enriched_4h = 0],
      [ModerateLongTable EXCEPT !.rows_15m = 30, !.enriched_15m = 30],
      [ModerateLongTable EXCEPT !.rows_4h = 50, !.enriched_4h = 1] }

ModerateTables == ModerateLive \cup ModerateFiltered \cup ModerateDegenerate

(* The `if` of the long block, lines 594-608, and of the short block, 642-656 *)
ModerateLongConditions(t) ==
    LET ema_bullish == Gt(t.ema.ema_fast, t.ema.ema_slow)
        ema_slope_bullish == Gt(t.ema.ema_fast, t.ema.prev_ema_fast)
        rsi_bullish == Gt(t.rsi, RSI_BULLISH)
        candle_bullish == t.candle.close > t.candle.open
        trend_bullish == Gt(t.candle.close, t.trend_ema)
    IN  ema_bullish /\ ema_slope_bullish /\ rsi_bullish /\ candle_bullish /\ trend_bullish

ModerateShortConditions(t) ==
    LET ema_bearish == Lt(t.ema.ema_fast, t.ema.ema_slow)
        ema_slope_bearish == Lt(t.ema.ema_fast, t.ema.prev_ema_fast)
        rsi_bearish == Lt(t.rsi, RSI_BEARISH)
        candle_bearish == t.candle.close < t.candle.open
        trend_bearish == Lt(t.candle.close, t.trend_ema)
    IN  ema_bearish /\ ema_slope_bearish /\ rsi_bearish /\ candle_bearish /\ trend_bearish

(* The reset block, lines 685-692 *)
ModerateResetBlock(as, t) ==
    LET S == "moderate_ema_crossover"
        a1 == IF as[S].long /\ ~Gt(t.ema.ema_fast, t.ema.ema_slow)
              THEN _reset_alert_state(as, S, "long") ELSE as
    IN  IF a1[S].short /\ ~Lt(t.ema.ema_fast, t.ema.ema_slow)
        THEN _reset_alert_state(a1, S, "short") ELSE a1

(* A faulty variant of the moderate levels: the reward is twice the risk *)
ModerateSignalTwiceRisk(t, signal_type) ==
    IF signal_type = "long"
    THEN Signal(t.candle.close * 10000, t.candle.close * 9850, t.candle.close * 10300)
    ELSE Signal(t.candle.close * 10000, t.candle.close * 10150, t.candle.close * 9700)

(* Lines 610 and 623 (long), 658 and 671 (short) *)
ModerateSignal(t, signal_type) ==
    IF signal_type = "long"
    THEN Signal(t.candle.close * 10000, t.candle.close * 9850, t.candle.close * 10375)
    ELSE Signal(t.candle.close * 10000, t.candle.close * 10150, t.candle.close * 9625)

(* Lines 589-694 *)
ModerateBlocks(as, nowv, t) ==
    LET S == "moderate_ema_crossover"
        long_entered == as[S].long = FALSE /\ _check_alert_cooldown(as, S, nowv)
        short_entered == as[S].short = FALSE /\ _check_alert_cooldown(as, S, nowv)
    IN  IF long_entered /\ ModerateLongConditions(t)
        THEN Emitting(Outcome("long", _update_alert_state(as, S, "long", nowv), "long"),
                      ModerateSignal(t, "long"))
        ELSE IF short_entered /\ ModerateShortConditions(t)
        THEN Emitting(Outcome("short", _update_alert_state(as, S, "short", nowv), "short"),
                      ModerateSignal(t, "short"))
        ELSE Outcome("None", ModerateResetBlock(as, t), "reset")

check_moderate_ema_crossover(as, nowv, t) ==
    IF ~_check_cross_strategy_risk_controls(as) THEN Outcome("None", as, "risk")
    ELSE IF ~_check_session_filter(nowv) THEN Outcome("None", as, "session")
    ELSE IF "15m" \notin t.fetched \/ "4h" \notin t.fetched THEN Outcome("None", as, "data")
    ELSE IF t.rows_15m < MIN_CANDLES \/ t.rows_4h < MIN_CANDLES THEN Outcome("None", as, "data")
    ELSE IF t.enriched_15m < 2 \/ t.enriched_4h < 2 THEN Outcome("None", as, "rows")
    ELSE IF ~_check_candle_body_confirmation(t.candle) THEN Outcome("None", as, "body")
    ELSE IF ~_check_volume_spike(t) THEN Outcome("None", as, "volume")
    ELSE ModerateBlocks(as, nowv, t)

---------------------------------------------------------------------------
(* The tables check_conservative_trend_rider can be given *)

TrendRows == { [ema_fast |-> 102, ema_slow |-> 100],
               [ema_fast |-> 98, ema_slow |-> 100],
               [ema_fast |-> 100, ema_slow |-> 100] }

(* The lows and the highs of the last 5 rows, df['low'].iloc[-5:] and
   df['high'].iloc[-5:], the current candle last *)
Lows5 == { <<98, 97, 99, 98, 98>>, <<101, 101, 101, 101, 101>> }
Highs5 == { <<103, 104, 102, 103, 103>>, <<99, 99, 99, 99, 99>> }

(* The candles of an exchange have low <= close <= high *)
ConservativeLive ==
    { t \in [fetch : {"ok"}, rows : {300}, enriched_rows : {300},
              ema : TrendRows, close : {99, 101}, adx : {NaN, 20, 30}, rsi : {NaN, 30, 70},
              lows : Lows5, highs : Highs5] :
        t.lows[5] <= t.close /\ t.close <= t.highs[5] }

(* A table on which every long condition of the conservative strategy holds *)
ConservativeLongTable ==
    [fetch |-> "ok", rows |-> 300, enriched_rows |-> 300,
     ema |-> [ema_fast |-> 102, ema_slow |-> 100], close |-> 101, adx |-> 30, rsi |-> 50,
     lows |-> <<98, 97, 99, 98, 98>>, highs |-> <<103, 104, 102, 103, 103>>]

ConservativeDegenerate ==
    { [ConservativeLongTable EXCEPT !.fetch = "raise", !.rows = 0, !.enriched_rows = 0],
      [ConservativeLongTable EXCEPT !.fetch = "none", !.rows = 1, !.enriched_rows = 1],
      [ConservativeLongTable EXCEPT !.rows = 200, !.enriched_rows = 200],
      [ConservativeLongTable EXCEPT !.enriched_rows = 2] }

ConservativeTables == ConservativeLive \cup ConservativeDegenerate

(* The `if` of the long block, lines 761-766, and of the short block, 806-811 *)
ConservativeLongConditions(t) ==
    LET ema_bullish == Gt(t.ema.ema_fast, t.ema.ema_slow)
        price_above_ema == Gt(t.close, t.ema.ema_slow)
        strong_trend == Gt(t.adx, ADX_THRESHOLD)
        good_entry == Lt(t.rsi, RSI_UPPER)
    IN  ema_bullish /\ price_above_ema /\ strong_trend /\ good_entry

ConservativeShortConditions(t) ==
    LET ema_bearish == Lt(t.ema.ema_fast, t.ema.ema_slow)
        price_below_ema == Lt(t.close, t.ema.ema_slow)
        strong_trend == Gt(t.adx, ADX_THRESHOLD)
        good_entry == Gt(t.rsi, RSI_LOWER)
    IN  ema_bearish /\ price_below_ema /\ strong_trend /\ good_entry

(* The reset block, lines 839-846 *)
ConservativeResetBlock(as, t) ==
    LET S == "conservative_trend_rider"
        a1 == IF as[S].long /\ ~Gt(t.ema.ema_fast, t.ema.ema_slow)
              THEN _reset_alert_state(as, S, "long") ELSE as
    IN  IF a1[S].short /\ ~Lt(t.ema.ema_fast, t.ema.ema_slow)
        THEN _reset_alert_state(a1, S, "short") ELSE a1

(* min(...) and max(...) of a sequence of prices *)
MinOf(prices) ==
    CHOOSE m \in {prices[i] : i \in DOMAIN prices} : \A i \in DOMAIN prices : m <= prices[i]
MaxOf(prices) ==
    CHOOSE m \in {prices[i] : i \in DOMAIN prices} : \A i \in DOMAIN prices : m >= prices[i]

(* A faulty variant: the swing points are taken from the current candle alone *)
ConservativeSignalCurrentCandle(t, signal_type) ==
    IF signal_type = "long"
    THEN Signal(t.close * 10000, t.lows[5] * 10000,
                (t.close + 3 * (t.close - t.lows[5])) * 10000)
    ELSE Signal(t.close * 10000, t.highs[5] * 10000,
                (t.close - 3 * (t.highs[5] - t.close)) * 10000)

(* Lines 754-755, 767-769 (long) and 812-814 (short): the stop at the swing
   point of the last 5 rows, the target 3 times the risk away *)
ConservativeSignal(t, signal_type) ==
    LET swing_low == MinOf(t.lows)
        swing_high == MaxOf(t.highs)
    IN  IF signal_type = "long"
        THEN Signal(t.close * 10000, swing_low * 10000,
                    (t.close + 3 * (t.close - swing_low)) * 10000)
        ELSE Signal(t.close * 10000, swing_high * 10000,
                    (t.close - 3 * (swing_high - t.close)) * 10000)

(* Lines 757-848 *)
ConservativeBlocks(as, nowv, t) ==
    LET S == "conservative_trend_rider"
        long_entered == as[S].long = FALSE /\ _check_alert_cooldown(as, S, nowv)
        short_entered == as[S].short = FALSE /\ _check_alert_cooldown(as, S, nowv)
    IN  IF long_entered /\ ConservativeLongConditions(t)
        THEN Emitting(Outcome("long", _update_alert_state(as, S, "long", nowv), "long"),
                      ConservativeSignal(t, "long"))
        ELSE IF short_entered /\ ConservativeShortConditions(t)
        THEN Emitting(Outcome("short", _update_alert_state(as, S, "short", nowv), "short"),
                      ConservativeSignal(t, "short"))
        ELSE Outcome("None", ConservativeResetBlock(as, t), "reset")

check_conservative_trend_rider(as, nowv, t) ==
    IF ~_check_cross_strategy_risk_controls(as) THEN Outcome("None", as, "risk")
    ELSE IF t.fetch = "raise" THEN Outcome("None", as, "fetch_error")
    ELSE IF t.fetch = "none" \/ t.rows < MIN_CANDLES_CONSERVATIVE THEN Outcome("None", as, "data")
    ELSE IF t.enriched_rows < 3 THEN Outcome("None", as, "rows")
    ELSE ConservativeBlocks(as, nowv, t)

---------------------------------------------------------------------------
(* The modular strategy classes (strategies/): check_signal is handed the table
   by its caller, and format_signal keeps the statistics.

   rows          rows of the table (0: None or empty)
   has_columns   every column of required_columns is in the table *)

Classes == {"AggressiveMomentumStrategy", "ModerateEMAStrategy", "ConservativeTrendStrategy"}

ClassInit == [c \in Classes |-> [signals_generated |-> 0, last_signal_time |-> None]]

(* BaseStrategy.validate_data *)
validate_data(t) ==
    IF t.rows = 0 THEN FALSE
    ELSE IF ~t.has_columns THEN FALSE
    ELSE TRUE

(* BaseStrategy.format_signal: the statistics it updates *)
format_signal(st, c, nowv) ==
    [st EXCEPT ![c] = [signals_generated |-> st[c].signals_generated + 1,
                       last_signal_time |-> Some(nowv)]]

ClassOutcome(result, st, exit) ==
    [result |-> result, stats |-> st, exit |-> exit, signal |-> NoSignal]

(* AggressiveMomentumStrategy._check_volume_confirmation *)
AggressiveClassVolume(t) ==
    IF t.rows < 20 THEN FALSE
    ELSE Ge(t.volume * 10, t.avg_volume * VOLUME_MULTIPLIER_X10)

(* AggressiveMomentumStrategy._check_rsi_divergence, a placeholder *)
AggressiveClassDivergence(t) == IF t.rows - 1 < 10 THEN FALSE ELSE TRUE

AggressiveClassBullish(t) ==
    LET k_cross_above == Lt(t.prev.k, t.prev.d) /\ Gt(t.cur.k, t.cur.d)
        both_oversold == Lt(t.prev.k, OVERSOLD_THRESHOLD) /\ Lt(t.prev.d, OVERSOLD_THRESHOLD)
    IN  k_cross_above /\ both_oversold /\ AggressiveClassVolume(t) /\ AggressiveClassDivergence(t)

AggressiveClassBearish(t) ==
    LET k_cross_below == Gt(t.prev.k, t.prev.d) /\ Lt(t.cur.k, t.cur.d)
        both_overbought == Gt(t.prev.k, OVERBOUGHT_THRESHOLD) /\ Gt(t.prev.d, OVERBOUGHT_THRESHOLD)
    IN  k_cross_below /\ both_overbought /\ AggressiveClassVolume(t) /\ AggressiveClassDivergence(t)

(* aggressive_momentum.py lines 113-114 (long) and 165-166 (short) *)
AggressiveClassSignal(t, signal_type) ==
    IF signal_type = "long"
    THEN Signal(t.close * 10000, t.close * 9920, t.close * 10150)
    ELSE Signal(t.close * 10000, t.close * 10080, t.close * 9850)

(* AggressiveMomentumStrategy.check_signal; data.iloc[-2] of a one-row table
   raises IndexError, which the method's except turns into None *)
AggressiveMomentumStrategy_check_signal(st, nowv, t) ==
    LET c == "AggressiveMomentumStrategy"
    IN  IF ~validate_data(t) THEN ClassOutcome("None", st, "validate")
        ELSE IF t.rows < 2 THEN ClassOutcome("None", st, "index_error")
        ELSE IF AggressiveClassBullish(t)
        THEN Emitting(ClassOutcome("long", format_signal(st, c, nowv), "long"),
                      AggressiveClassSignal(t, "long"))
        ELSE IF AggressiveClassBearish(t)
        THEN Emitting(ClassOutcome("short", format_signal(st, c, nowv), "short"),
                      AggressiveClassSignal(t, "short"))
        ELSE ClassOutcome("None", st, "none")

AggressiveClassLive ==
    [rows : {25}, has_columns : {TRUE}, prev : StochPrev, cur : StochCur,
     volume : {19, 20}, avg_volume : {10}, close : {102}]

AggressiveClassLongTable ==
    [rows |-> 25, has_columns |-> TRUE, prev |-> [k |-> 5, d |-> 8],
     cur |-> [k |-> 12, d |-> 9], volume |-> 20, avg_volume |-> 10, close |-> 102]

AggressiveClassDegenerate ==
    { [AggressiveClassLongTable EXCEPT !.rows = 0],
      [AggressiveClassLongTable EXCEPT !.rows = 1],
      [AggressiveClassLongTable EXCEPT !.rows = 2],
      [AggressiveClassLongTable EXCEPT !.has_columns = FALSE] }

AggressiveClassTables == AggressiveClassLive \cup AggressiveClassDegenerate

(* ModerateEMAStrategy._check_volume_spike and _check_candle_body *)
ModerateClassVolume(t) ==
    IF t.rows < 20 THEN FALSE
    ELSE Ge(t.volume * 10, t.avg_volume * REQUIRED_VOLUME_SPIKE_X10)

ModerateClassCandle(c) ==
    Abs(c.close - c.open) * 1000 >= MIN_CANDLE_BODY_X1000 * c.open

ModerateClassBullish(t) ==
    LET ema_cross_above == Le(t.prev.ema_fast, t.prev.ema_slow)
                           /\ Gt(t.cur.ema_fast, t.cur.ema_slow)
        rsi_bullish == Gt(t.rsi, RSI_BULLISH)
        trend_bullish == Lt(t.trend_ema, t.candle.close)
    IN  ema_cross_above /\ rsi_bullish /\ trend_bullish
        /\ ModerateClassVolume(t) /\ ModerateClassCandle(t.candle)

ModerateClassBearish(t) ==
    LET ema_cross_below == Ge(t.prev.ema_fast, t.prev.ema_slow)
                           /\ Lt(t.cur.ema_fast, t.cur.ema_slow)
        rsi_bearish == Lt(t.rsi, RSI_BEARISH)
        trend_bearish == Gt(t.trend_ema, t.candle.close)
    IN  ema_cross_below /\ rsi_bearish /\ trend_bearish
        /\ ModerateClassVolume(t) /\ ModerateClassCandle(t.candle)

(* moderate_ema.py lines 113-114 (long) and 162-163 (short) *)
ModerateClassSignal(t, signal_type) ==
    IF signal_type = "long"
    THEN Signal(t.candle.close * 10000, t.candle.close * 9850, t.candle.close * 10375)
    ELSE Signal(t.candle.close * 10000, t.candle.close * 10150, t.candle.close * 9625)

(* ModerateEMAStrategy.check_signal *)
ModerateEMAStrategy_check_signal(st, nowv, t) ==
    LET c == "ModerateEMAStrategy"
    IN  IF ~validate_data(t) THEN ClassOutcome("None", st, "validate")
        ELSE IF t.rows < 2 THEN ClassOutcome("None", st, "index_error")
        ELSE IF ModerateClassBullish(t)
        THEN Emitting(ClassOutcome("long", format_signal(st, c, nowv), "long"),
                      ModerateClassSignal(t, "long"))
        ELSE IF ModerateClassBearish(t)
        THEN Emitting(ClassOutcome("short", format_signal(st, c, nowv), "short"),
                      ModerateClassSignal(t, "short"))
        ELSE ClassOutcome("None", st, "none")

CrossRows == { [ema_fast |-> 99, ema_slow |-> 100], [ema_fast |-> 101, ema_slow |-> 100],
               [ema_fast |-> 100, ema_slow |-> 100] }

ModerateClassLive ==
    [rows : {25}, has_columns : {TRUE}, prev : CrossRows, cur : CrossRows,
     rsi : {NaN, 30, 70}, trend_ema : {99, 103}, candle : {BodyBull, BodyBear},
     volume : {18}, avg_volume : {10}]

ModerateClassLongTable ==
    [rows |-> 25, has_columns |-> TRUE, prev |-> [ema_fast |-> 99, ema_slow |-> 100],
     cur |-> [ema_fast |-> 101, ema_slow |-> 100], rsi |-> 70, trend_ema |-> 99,
     candle |-> BodyBull, volume |-> 18, avg_volume |-> 10]

ModerateClassDegenerate ==
    { [ModerateClassLongTable EXCEPT !.rows = 0],
      [ModerateClassLongTable EXCEPT !.rows = 1],
      [ModerateClassLongTable EXCEPT !.rows = 2],
      [ModerateClassLongTable EXCEPT !.has_columns = FALSE],
      [ModerateClassLongTable EXCEPT !.volume = 17],
      [ModerateClassLongTable EXCEPT !.candle = BodyDoji] }

ModerateClassTables == ModerateClassLive \cup ModerateClassDegenerate

(* ConservativeTrendStrategy. `sma` holds the SMA_50 and SMA_200 columns of
   data.tail(5), oldest first: min(rows, 5) rows, the last one data.iloc[-1]
   and the one before it data.iloc[-2]. *)
ConservativeClassCurrent(t) == t.sma[Len(t.sma)]
ConservativeClassPrevious(t) == t.sma[Len(t.sma) - 1]

(* A faulty variant of _check_trend_consistency: the current candle only *)
TrendConsistencyCurrentCandle(t, direction) ==
    IF t.rows < 5 THEN FALSE
    ELSE IF direction = "bullish"
    THEN Gt(ConservativeClassCurrent(t).ema_fast, ConservativeClassCurrent(t).ema_slow)
    ELSE Lt(ConservativeClassCurrent(t).ema_fast, ConservativeClassCurrent(t).ema_slow)

(* ConservativeTrendStrategy._check_trend_consistency *)
_check_trend_consistency(t, direction) ==
    IF t.rows < 5 THEN FALSE
    ELSE IF direction = "bullish"
    THEN \A i \in 1..Len(t.sma) : Gt(t.sma[i].ema_fast, t.sma[i].ema_slow)
    ELSE \A i \in 1..Len(t.sma) : Lt(t.sma[i].ema_fast, t.sma[i].ema_slow)

(* The four conditions of _check_golden_cross *)
ConservativeClassGoldenCross(t) ==
    /\ Le(ConservativeClassPrevious(t).ema_fast, ConservativeClassPrevious(t).ema_slow)
    /\ Gt(ConservativeClassCurrent(t).ema_fast, ConservativeClassCurrent(t).ema_slow)

ConservativeClassBullish(t) ==
    LET adx_strong == Gt(t.adx, ADX_THRESHOLD)
        rsi_bullish == Gt(t.rsi, RSI_UPPER)
        trend_confirmed == _check_trend_consistency(t, "bullish")
    IN  ConservativeClassGoldenCross(t) /\ adx_strong /\ rsi_bullish /\ trend_confirmed

(* The four conditions of _check_death_cross *)
ConservativeClassDeathCross(t) ==
    /\ Ge(ConservativeClassPrevious(t).ema_fast, ConservativeClassPrevious(t).ema_slow)
    /\ Lt(ConservativeClassCurrent(t).ema_fast, ConservativeClassCurrent(t).ema_slow)

ConservativeClassBearish(t) ==
    LET adx_strong == Gt(t.adx, ADX_THRESHOLD)
        rsi_bearish == Lt(t.rsi, RSI_LOWER)
        trend_confirmed == _check_trend_consistency(t, "bearish")
    IN  ConservativeClassDeathCross(t) /\ adx_strong /\ rsi_bearish /\ trend_confirmed

(* conservative_trend.py lines 108-109 (long) and 152-153 (short) *)
ConservativeClassSignal(t, signal_type) ==
    IF signal_type = "long"
    THEN Signal(t.close * 10000, ConservativeClassCurrent(t).ema_slow * 9800, t.close * 10500)
    ELSE Signal(t.close * 10000, ConservativeClassCurrent(t).ema_slow * 10200, t.close * 9500)

(* ConservativeTrendStrategy.check_signal *)
ConservativeTrendStrategy_check_signal(st, nowv, t) ==
    LET c == "ConservativeTrendStrategy"
    IN  IF ~validate_data(t) THEN ClassOutcome("None", st, "validate")
        ELSE IF t.rows < 2 THEN ClassOutcome("None", st, "index_error")
        ELSE IF ConservativeClassBullish(t)
        THEN Emitting(ClassOutcome("long", format_signal(st, c, nowv), "long"),
                      ConservativeClassSignal(t, "long"))
        ELSE IF ConservativeClassBearish(t)
        THEN Emitting(ClassOutcome("short", format_signal(st, c, nowv), "short"),
                      ConservativeClassSignal(t, "short"))
        ELSE ClassOutcome("None", st, "none")

(* Tables of 250 rows: three older candles alike, then any previous and any
   current candle *)
ConservativeClassLive ==
    { [rows |-> 250, has_columns |-> TRUE, sma |-> <<a, a, a, p, c>>,
       adx |-> 30, rsi |-> r, close |-> 102] :
      a \in CrossRows, p \in CrossRows, c \in CrossRows, r \in {30, 70} }

ConservativeClassCrossTable ==
    [rows |-> 250, has_columns |-> TRUE,
     sma |-> << [ema_fast |-> 101, ema_slow |-> 100], [ema_fast |-> 101, ema_slow |-> 100],
                [ema_fast |-> 101, ema_slow |-> 100], [ema_fast |-> 99, ema_slow |-> 100],
                [ema_fast |-> 101, ema_slow |-> 100] >>,
     adx |-> 30, rsi |-> 70, close |-> 102]

ConservativeClassDegenerate ==
    { [ConservativeClassCrossTable EXCEPT !.rows = 0, !.sma = << >>],
      [ConservativeClassCrossTable EXCEPT !.rows = 1,
                                          !.sma = <<[ema_fast |-> 101, ema_slow |-> 100]>>],
      [ConservativeClassCrossTable EXCEPT !.rows = 4, !.sma = Tail(@)],
      [ConservativeClassCrossTable EXCEPT !.has_columns = FALSE],
      [ConservativeClassCrossTable EXCEPT !.sma[4] = [ema_fast |-> NaN, ema_slow |-> NaN]],
      [ConservativeClassCrossTable EXCEPT !.adx = NaN] }

ConservativeClassTables == ConservativeClassLive \cup ConservativeClassDegenerate

---------------------------------------------------------------------------
(* What a table holds, as the record of the last call keeps it:
   data       "raise", "none", "few" (too few candles), "dropped" (too few rows
              after enrichment), "nocols" (a derived column is missing), "ok"
   above      on the current row the fast line is above the slow line
   below      on the current row the fast line is below the slow line
   nan        a derived value the strategy reads on the current row is NaN
   long_ok    the data gates, the filters and the long conditions all pass
   short_ok   likewise for the short conditions
   long_rest  the data gates, the filters and the long conditions other than
              the test of the volume all pass
   volume_ge  the current volume is at least the average times the multiplier *)

Facts(data, above, below, nan, long_ok, short_ok, long_rest, volume_ge) ==
    [data |-> data, above |-> above, below |-> below, nan |-> nan,
     long_ok |-> long_ok, short_ok |-> short_ok,
     long_rest |-> long_rest, volume_ge |-> volume_ge]

(* The table with a volume no test rejects *)
AmpleVolume(t) == [t EXCEPT !.volume = 10 * t.avg_volume]

AggressiveFacts(t) ==
    LET data == IF t.fetch = "raise" THEN "raise"
                ELSE IF t.fetch = "none" THEN "none"
                ELSE IF t.rows < MIN_CANDLES THEN "few"
                ELSE IF t.enriched_rows < 2 THEN "dropped"
                ELSE IF ~t.has_columns THEN "nocols"
                ELSE "ok"
        filters == _check_volatility_filter(t) /\ _check_wick_confirmation(t.candle)
    IN  Facts(data, Gt(t.cur.k, t.cur.d), Lt(t.cur.k, t.cur.d),
              data = "ok" /\ (t.cur.k = NaN \/ t.cur.d = NaN),
              data = "ok" /\ filters /\ AggressiveLongConditions(t),
              data = "ok" /\ filters /\ AggressiveShortConditions(t),
              data = "ok" /\ filters /\ AggressiveLongConditions(AmpleVolume(t)),
              Ge(t.volume * 10, t.avg_volume * VOLUME_MULTIPLIER_X10))

ModerateFacts(t) ==
    LET data == IF "15m" \notin t.fetched \/ "4h" \notin t.fetched THEN "none"
                ELSE IF t.rows_15m < MIN_CANDLES \/ t.rows_4h < MIN_CANDLES THEN "few"
                ELSE IF t.enriched_15m < 2 \/ t.enriched_4h < 2 THEN "dropped"
                ELSE "ok"
        filters == _check_candle_body_confirmation(t.candle) /\ _check_volume_spike(t)
    IN  Facts(data, Gt(t.ema.ema_fast, t.ema.ema_slow), Lt(t.ema.ema_fast, t.ema.ema_slow),
              data = "ok" /\ t.rsi = NaN,
              data = "ok" /\ filters /\ ModerateLongConditions(t),
              data = "ok" /\ filters /\ ModerateShortConditions(t),
              data = "ok" /\ _check_candle_body_confirmation(t.candle)
                          /\ ModerateLongConditions(t),
              Ge(t.volume * 10, t.avg_volume * REQUIRED_VOLUME_SPIKE_X10))

ConservativeFacts(t) ==
    LET data == IF t.fetch = "raise" THEN "raise"
                ELSE IF t.fetch = "none" THEN "none"
                ELSE IF t.rows < MIN_CANDLES_CONSERVATIVE THEN "few"
                ELSE IF t.enriched_rows < 3 THEN "dropped"
                ELSE "ok"
    IN  Facts(data, Gt(t.ema.ema_fast, t.ema.ema_slow), Lt(t.ema.ema_fast, t.ema.ema_slow),
              data = "ok" /\ (t.adx = NaN \/ t.rsi = NaN),
              data = "ok" /\ ConservativeLongConditions(t),
              data = "ok" /\ ConservativeShortConditions(t),
              data = "ok" /\ ConservativeLongConditions(t),
              TRUE) @@ [lows |-> t.lows, highs |-> t.highs]

ClassData(t) ==
    IF t.rows = 0 THEN "none"
    ELSE IF t.rows < 2 THEN "dropped"
    ELSE IF ~t.has_columns THEN "nocols"
    ELSE "ok"

AggressiveClassFacts(t) ==
    Facts(ClassData(t), Gt(t.cur.k, t.cur.d), Lt(t.cur.k, t.cur.d),
          ClassData(t) = "ok" /\ (t.cur.k = NaN \/ t.cur.d = NaN),
          ClassData(t) = "ok" /\ AggressiveClassBullish(t),
          ClassData(t) = "ok" /\ AggressiveClassBearish(t),
          ClassData(t) = "ok" /\ AggressiveClassBullish(AmpleVolume(t)),
          Ge(t.volume * 10, t.avg_volume * VOLUME_MULTIPLIER_X10))

ModerateClassFacts(t) ==
    Facts(ClassData(t), Gt(t.cur.ema_fast, t.cur.ema_slow), Lt(t.cur.ema_fast, t.cur.ema_slow),
          ClassData(t) = "ok" /\ t.rsi = NaN,
          ClassData(t) = "ok" /\ ModerateClassBullish(t),
          ClassData(t) = "ok" /\ ModerateClassBearish(t),
          ClassData(t) = "ok" /\ ModerateClassBullish(AmpleVolume(t)),
          Ge(t.volume * 10, t.avg_volume * REQUIRED_VOLUME_SPIKE_X10))

(* What a table offers the conservative class: cross and rest are the
   crossover of the last two candles and the ADX and RSI conditions *)
ConservativeClassFacts(t) ==
    LET ok == ClassData(t) = "ok"
        cur == IF t.rows = 0 THEN [ema_fast |-> NaN, ema_slow |-> NaN]
               ELSE ConservativeClassCurrent(t)
    IN  Facts(ClassData(t), Gt(cur.ema_fast, cur.ema_slow), Lt(cur.ema_fast, cur.ema_slow),
              ok /\ t.adx = NaN,
              ok /\ ConservativeClassBullish(t),
              ok /\ ConservativeClassBearish(t),
              ok /\ ConservativeClassBullish(t),
              TRUE)
        @@ [golden_cross |-> ok /\ ConservativeClassGoldenCross(t),
            death_cross |-> ok /\ ConservativeClassDeathCross(t),
            long_rest_ok |-> Gt(t.adx, ADX_THRESHOLD) /\ Gt(t.rsi, RSI_UPPER),
            short_rest_ok |-> Gt(t.adx, ADX_THRESHOLD) /\ Lt(t.rsi, RSI_LOWER),
            rows |-> t.rows]

NoFacts == Facts("none", FALSE, FALSE, FALSE, FALSE, FALSE, FALSE, FALSE)

NoCall ==
    [op |-> "none", result |-> "None", exit |-> "none", pre_long |-> FALSE,
     pre_short |-> FALSE, again |-> FALSE, facts |-> NoFacts, signal |-> NoSignal]

---------------------------------------------------------------------------
(* EnhancedStrategyEngine.check_all_strategies *)

(* A faulty variant of the priority order: aggressive first *)
PriorityReversed ==
    <<"aggressive_momentum_ignition", "moderate_ema_crossover", "conservative_trend_rider">>

EXECUTION_PRIORITY ==
    <<"conservative_trend_rider", "moderate_ema_crossover", "aggressive_momentum_ignition">>

(* The body of the for loop, lines 903-910: the method called for a name *)
CheckOne(strategy_name, as, nowv, t) ==
    IF strategy_name = "aggressive_momentum_ignition"
    THEN check_aggressive_momentum_ignition(as, nowv, t)
    ELSE IF strategy_name = "moderate_ema_crossover"
    THEN check_moderate_ema_crossover(as, nowv, t)
    ELSE check_conservative_trend_rider(as, nowv, t)

FactsOf(strategy_name, t) ==
    IF strategy_name = "aggressive_momentum_ignition" THEN AggressiveFacts(t)
    ELSE IF strategy_name = "moderate_ema_crossover" THEN ModerateFacts(t)
    ELSE ConservativeFacts(t)

(* The gate on the clock of a strategy's check_* method *)
ClockGate(strategy_name, nowv) ==
    IF strategy_name = "aggressive_momentum_ignition" THEN _check_time_filter(nowv)
    ELSE IF strategy_name = "moderate_ema_crossover" THEN _check_session_filter(nowv)
    ELSE TRUE

(* The signal a strategy's own conditions call for: its clock gate, its data
   gates, filters and conditions, its flag and its cooldown, the cross-strategy
   gate left aside *)
Wants(strategy_name, as, nowv, facts) ==
    LET open == ClockGate(strategy_name, nowv) /\ _check_alert_cooldown(as, strategy_name, nowv)
    IN  IF facts.long_ok /\ ~as[strategy_name].long /\ open THEN "long"
        ELSE IF facts.short_ok /\ ~as[strategy_name].short /\ open THEN "short"
        ELSE "None"

(* A faulty variant: a fetch that failed after all retries is not caught *)
FetchErrorPropagates(exit) == exit = "fetch_error"

(* Every check_* method ends with `except Exception: return None` (lines
   509-511, 696-698, 850-852): no exit leaves the method as an exception.
   check_all_strategies itself has no try. *)
Propagates(exit) == FALSE

(* The for loop from its i-th name on: `calls` is the record of the calls made,
   `signals` the list the method returns *)
RECURSIVE RunFrom(_, _, _, _, _, _)
RunFrom(i, as, nowv, tabs, calls, signals) ==
    IF i > Len(EXECUTION_PRIORITY)
    THEN [alert_states |-> as, calls |-> calls, signals |-> signals, raised |-> FALSE]
    ELSE LET strategy_name == EXECUTION_PRIORITY[i]
             out == CheckOne(strategy_name, as, nowv, tabs[strategy_name])
             call == [strategy |-> strategy_name, result |-> out.result, exit |-> out.exit,
                      wants |-> Wants(strategy_name, as, nowv,
                                      FactsOf(strategy_name, tabs[strategy_name])),
                      active |-> ActiveTrades(as)]
             signal == [strategy |-> strategy_name, signal_type |-> out.result]
         IN  IF Propagates(out.exit)
             THEN [alert_states |-> out.alert_states, calls |-> Append(calls, call),
                   signals |-> << >>, raised |-> TRUE]
             ELSE RunFrom(i + 1, out.alert_states, nowv, tabs, Append(calls, call),
                          IF out.result \in Directions THEN Append(signals, signal)
                          ELSE signals)

check_all_strategies(as, nowv, tabs) == RunFrom(1, as, nowv, tabs, << >>, << >>)

(* A table on which every short condition of the conservative strategy holds *)
ConservativeShortTable ==
    [ConservativeLongTable EXCEPT !.ema = [ema_fast |-> 98, ema_slow |-> 100], !.close = 99]

(* The tables one check_all_strategies call can meet, per strategy: the long
   table, the short table, and a failed fetch *)
SweepTables ==
    [s \in Strategies |->
        IF s = "aggressive_momentum_ignition"
        THEN {AggressiveLongTable, AggressiveShortTable,
              [AggressiveLongTable EXCEPT !.fetch = "raise", !.rows = 0, !.enriched_rows = 0]}
        ELSE IF s = "moderate_ema_crossover"
        THEN {ModerateLongTable, ModerateShortTable,
              [ModerateLongTable EXCEPT !.fetched = {"15m"}, !.rows_4h = 0, !.enriched_4h = 0]}
        ELSE {ConservativeLongTable, ConservativeShortTable,
              [ConservativeLongTable EXCEPT !.fetch = "raise", !.rows = 0, !.enriched_rows = 0]}]

---------------------------------------------------------------------------
(* Position sizing. Prices are in thousandths; a size is the exact quotient
   num / den with den > 0, so that the caps compare as the floats do. *)

PriceUnit == 1000
RISK_PER_TRADE_PCT == 2            \* max_risk_per_trade 0.02
BASE_CAPITAL == 10000
SAFETY_CAP_MULTIPLE == 10

CAPITAL_ALLOCATION_PCT ==
    [s \in Strategies |->
        IF s = "conservative_trend_rider" THEN 50
        ELSE IF s = "moderate_ema_crossover" THEN 30
        ELSE 20]

LEVERAGE_CAPS ==
    [s \in Strategies |->
        IF s = "aggressive_momentum_ignition" THEN 5
        ELSE IF s = "moderate_ema_crossover" THEN 3
        ELSE 1]

Size(num, den) == [num |-> num, den |-> den]

(* Python's min(a, b) on two sizes: b when b < a, else a *)
MinSize(a, b) == IF b.num * a.den < a.num * b.den THEN b ELSE a

(* A faulty variant of the sizing: the leverage cap is not applied *)
SizeWithoutLeverageCap(capital, entry_price, stop_loss, leverage) ==
    LET price_risk == Abs(entry_price - stop_loss)
    IN  IF price_risk = 0 THEN Size(0, 1)
        ELSE MinSize(Size(capital * RISK_PER_TRADE_PCT * PriceUnit, 100 * price_risk),
                     Size(capital * SAFETY_CAP_MULTIPLE, 1))

(* EnhancedBacktestEngine._calculate_position_size *)
Backtest_calculate_position_size(capital, entry_price, stop_loss, leverage) ==
    LET price_risk == Abs(entry_price - stop_loss)
        position_size == Size(capital * RISK_PER_TRADE_PCT * PriceUnit, 100 * price_risk)
        max_position_size == Size(capital * leverage, 1)
        safety_cap == Size(capital * SAFETY_CAP_MULTIPLE, 1)
    IN  IF price_risk = 0 THEN Size(0, 1)
        ELSE MinSize(MinSize(position_size, max_position_size), safety_cap)

(* EnhancedStrategyEngine._calculate_position_size *)
StrategyCapital(strategy_name) == (BASE_CAPITAL * CAPITAL_ALLOCATION_PCT[strategy_name]) \div 100

Engine_calculate_position_size(strategy_name, entry_price, stop_loss) ==
    LET strategy_capital == StrategyCapital(strategy_name)
        price_risk == Abs(entry_price - stop_loss)
        position_size == Size(strategy_capital * RISK_PER_TRADE_PCT * PriceUnit, 100 * price_risk)
        max_position_size == Size(strategy_capital * LEVERAGE_CAPS[strategy_name], 1)
        safety_cap == Size(strategy_capital * SAFETY_CAP_MULTIPLE, 1)
    IN  IF price_risk = 0 THEN Size(0, 1)
        ELSE MinSize(MinSize(position_size, max_position_size), safety_cap)

(* The arguments a sizing call can be given *)
Capitals == {-1000, 0, 1000}
Prices == {99990, 100000, 100001, 100004, 100010}
Leverages == {0, 1, 3, 5, 20}

(* EnhancedStrategyEngine.__init__: the risk management state; the reset time is
   midnight of the day of construction *)
RiskInit(startv) ==
    [daily_loss |-> 0, daily_loss_reset_time |-> startv - MinuteOfDay(startv),
     active_positions |-> << >>, portfolio_risk |-> 0]

NoSweep == [calls |-> << >>, signals |-> << >>, raised |-> FALSE]

(* DataHandler.fetch_ohlcv.  A call is followed one loop iteration at a time:
   timeframe, limit   the arguments, limit after `if limit is None`
   attempt            the loop variable of `for attempt in range(MAX_RETRIES)`
   responses          what exchange.fetch_ohlcv did in each iteration so far
   slept              seconds spent in time.sleep
   outcome            "none" before any call, "running" inside the loop, then
                      "df" (a DataFrame of `rows` candles is returned), "None"
                      (None is returned) or "raised" (the exception leaves
                      fetch_ohlcv)                                          *)
MAX_RETRIES == 3
RETRY_DELAY == 5                \* seconds
CANDLE_LIMIT == 200
NoLimit == 0                    \* limit = None, the default of the parameter

NoFetch ==
    [timeframe |-> "5m", limit |-> NoLimit, attempt |-> 0, responses |-> << >>,
     slept |-> 0, rows |-> 0, outcome |-> "none"]

Timeframes == {"5m", "15m", "4h"}
Limits == {NoLimit, 100, 300}

(* What one exchange.fetch_ohlcv call can do: raise, or return `rows` candles
   of which `nan` have a value pd.to_numeric turns into NaN *)
Responses(limit) ==
    {[raises |-> TRUE, rows |-> 0, nan |-> 0]} \cup
    {[raises |-> FALSE, rows |-> n, nan |-> k] : n \in {0, 1, 2, limit}, k \in {0, 1}}

(* One iteration of the retry loop, the exchange answering `resp` *)
fetch_attempt(f, resp) ==
    LET seen == [f EXCEPT !.responses = Append(@, resp)]
        kept == IF resp.nan > resp.rows THEN 0 ELSE resp.rows - resp.nan
    IN  IF resp.raises
        THEN IF f.attempt < MAX_RETRIES - 1
             THEN [seen EXCEPT !.attempt = @ + 1, !.slept = @ + RETRY_DELAY]
             ELSE [seen EXCEPT !.outcome = "raised"]
        ELSE IF resp.rows = 0 THEN [seen EXCEPT !.outcome = "None"]
        ELSE IF kept < 2 THEN [seen EXCEPT !.outcome = "None"]
        ELSE [seen EXCEPT !.outcome = "df", !.rows = kept]

(* The conservative backtest, _backtest_conservative_trend_rider. Prices are
   whole numbers; a trailing stop is kept in tenths, the multiplier being 2.5.
   position         None ("none") or the position dictionary: type,
                    entry_price, size (per cent of the size at entry),
                    trailing_stop, profit_scaling_levels
   levels           the level dictionaries of CONSERVATIVE_TREND_RIDER
                    ['exit_conditions']['profit_scaling_levels']. The list is
                    copied with list.copy() when a position is created, so a
                    position's list holds these same dictionaries: its
                    profit_scaling_levels are indices into `levels`
   row              the candle of the last loop iteration
   did              the branch that iteration took                          *)
TRAILING_STOP_MULTIPLIER_X10 == 25
TRAILING_STOP_FILTER == TRUE
PROFIT_SCALING_FILTER == TRUE

PROFIT_SCALING_LEVELS ==
    << [threshold_x10 |-> 15, close_pct |-> 30, executed |-> FALSE],
       [threshold_x10 |-> 30, close_pct |-> 50, executed |-> FALSE] >>

NoPosition ==
    [type |-> "none", entry_price |-> 0, size |-> 0, trailing_stop |-> 0,
     profit_scaling_levels |-> << >>]

NoRow == [ema |-> [ema_fast |-> 100, ema_slow |-> 100], close |-> 100, adx |-> 0, rsi |-> 0, atr |-> 1]

NoBacktest ==
    [position |-> NoPosition, levels |-> PROFIT_SCALING_LEVELS, row |-> NoRow, did |-> "none"]

(* VercelTradingBot after __init__: not running, no trading_loop thread yet.
   loops        the trading_loop threads in the order start() created them,
                each "loop" (inside `while self.is_running`, asleep between
                two tests) or "done" (left the loop)
   generated_by history: the thread that made the last signal, 0 for none
   op, result   the last start() or stop() call and the flag it returned *)
NoVercel ==
    [is_running |-> FALSE, total_signals |-> 0, loops |-> << >>,
     generated_by |-> 0, op |-> "none", result |-> FALSE]

(* The Telegram control service.
   controller   TelegramBotController: chat_id as read from the environment
                (None when unset), is_initialized, is_running (the polling
                flag), has_callback (bot_control_callback is not None)
   bot          TelegramControlledTradingBot: is_running, start_time and the
                number of _run_bot_operations threads that have not ended
   op, result   the last call (_start_bot, _stop_bot, start_polling,
                stop_polling or _handle_message) and the flag the last
                _start_bot or _stop_bot returned
   handled      what the last _handle_message did: the handler it invoked
                ("none" for none), the bot_control_callback commands in order,
                and the number of send_message calls
   message      the message of the last _handle_message call *)
NoHandled == [handler |-> "none", callbacks |-> << >>, sent |-> 0]

NoMessage == [chat |-> [type |-> "missing", id |-> 0, text |-> ""],
              text |-> [slash |-> FALSE, word |-> ""]]

BotInit == [is_running |-> FALSE, start_time |-> None, threads |-> 0]

NoControl ==
    [controller |-> [chat_id |-> None, is_initialized |-> FALSE, is_running |-> FALSE,
                     has_callback |-> FALSE],
     bot |-> BotInit, op |-> "none", result |-> FALSE, handled |-> NoHandled,
     message |-> NoMessage]

(* AggressiveMomentumStrategy's parameters and the column names made of them.
   params            self.params, the keys that name columns or thresholds
   required_columns  self.required_columns
   columns           the columns of the table of the last check_signal call
   exit              where that call ended: "validate" (validate_data found a
                     required column missing), "key_error" (a column read was
                     not in the table) or "read" (every read found its column) *)
BaseColumns == {"open", "high", "low", "close", "volume"}

(* f'{prefix}_{stoch_rsi_k}_{stoch_rsi_d}_{rsi_length}' *)
StochColumn(prefix, params) ==
    prefix \o "_" \o ToString(params.stoch_rsi_k) \o "_" \o ToString(params.stoch_rsi_d)
           \o "_" \o ToString(params.rsi_length)

(* The StochRSI columns _check_bullish_signal and _check_bearish_signal read *)
ReadColumns(params) == {StochColumn("STOCHRSIk", params), StochColumn("STOCHRSId", params)}

(* AGGRESSIVE_MOMENTUM_IGNITION['parameters'] *)
AggressiveParams ==
    [stoch_rsi_k |-> 8, stoch_rsi_d |-> 2, rsi_length |-> 11, oversold_threshold |-> 10]

(* AggressiveMomentumStrategy.__init__ *)
AggressiveStrategyInit ==
    [params |-> AggressiveParams,
     required_columns |-> BaseColumns \cup ReadColumns(AggressiveParams),
     columns |-> {}, op |-> "none", exit |-> "none"]

(* No run of any strategy job is in flight *)
NoJobs == [s \in Strategies |-> [runs |-> << >>, skipped |-> FALSE]]

NoCalc ==
    [op |-> "none", strategy_name |-> "aggressive_momentum_ignition", capital |-> 0,
     entry_price |-> 0, stop_loss |-> 0, leverage |-> 0, result |-> Size(0, 1)]

---------------------------------------------------------------------------
(* The state machine *)

Components == {"engine", "strategies"}

Init ==
    /\ component \in Components
    /\ start \in StartTimes
    /\ now = start
    /\ alert_states = EngineInit
    /\ last_emit = [s \in Strategies |-> [long |-> None, short |-> None]]
    /\ stats = ClassInit
    /\ last = NoCall
    /\ calc = NoCalc
    /\ risk_state = RiskInit(start)
    /\ sweep = NoSweep
    /\ fetch = NoFetch
    /\ jobs = NoJobs
    /\ backtest = NoBacktest
    /\ vercel = NoVercel
    /\ control = NoControl
    /\ strategy = AggressiveStrategyInit

(* One check_* call of the engine returned `out`. The record of the call is kept
   until the caller has taken the result (Return); the next call starts then. *)
EngineCall(S, out, facts) ==
    /\ last.op = "none"
    /\ alert_states' = out.alert_states
    /\ last_emit' = IF out.result \in Directions
                    THEN [last_emit EXCEPT ![S][out.result] = Some(now)]
                    ELSE last_emit
    /\ last' = [op |-> S, result |-> out.result, exit |-> out.exit,
                pre_long |-> alert_states[S].long, pre_short |-> alert_states[S].short,
                again |-> out.result \in Directions /\ last_emit[S][out.result] # None,
                facts |-> facts, signal |-> out.signal]
    /\ UNCHANGED <<component, now, start, stats>>
    /\ UNCHANGED others

CheckAggressive ==
    /\ component = "engine"
    /\ \E t \in AggressiveTables :
           EngineCall("aggressive_momentum_ignition",
                      check_aggressive_momentum_ignition(alert_states, now, t),
                      AggressiveFacts(t))

CheckModerate ==
    /\ component = "engine"
    /\ \E t \in ModerateTables :
           EngineCall("moderate_ema_crossover",
                      check_moderate_ema_crossover(alert_states, now, t),
                      ModerateFacts(t))

CheckConservative ==
    /\ component = "engine"
    /\ \E t \in ConservativeTables :
           EngineCall("conservative_trend_rider",
                      check_conservative_trend_rider(alert_states, now, t),
                      ConservativeFacts(t))

(* One check_signal call of a strategy class returned `out` *)
ClassCall(c, out, facts) ==
    /\ last.op = "none"
    /\ out.stats[c].signals_generated <= MaxSignals
    /\ stats' = out.stats
    /\ last' = [op |-> c, result |-> out.result, exit |-> out.exit,
                pre_long |-> FALSE, pre_short |-> FALSE,
                again |-> out.result \in Directions /\ stats[c].signals_generated > 0,
                facts |-> facts, signal |-> out.signal]
    /\ UNCHANGED <<component, now, start, alert_states, last_emit>>
    /\ UNCHANGED others

AggressiveCheckSignal ==
    /\ component = "strategies"
    /\ \E t \in AggressiveClassTables :
           ClassCall("AggressiveMomentumStrategy",
                     AggressiveMomentumStrategy_check_signal(stats, now, t),
                     AggressiveClassFacts(t))

ModerateCheckSignal ==
    /\ component = "strategies"
    /\ \E t \in ModerateClassTables :
           ClassCall("ModerateEMAStrategy",
                     ModerateEMAStrategy_check_signal(stats, now, t),
                     ModerateClassFacts(t))

ConservativeCheckSignal ==
    /\ component = "strategies"
    /\ \E t \in ConservativeClassTables :
           ClassCall("ConservativeTrendStrategy",
                     ConservativeTrendStrategy_check_signal(stats, now, t),
                     ConservativeClassFacts(t))

(* The caller takes the result of the last call *)
Return ==
    /\ last.op # "none"
    /\ last' = NoCall
    /\ UNCHANGED <<component, now, start, alert_states, last_emit, stats>>
    /\ UNCHANGED others

(* Time passes between calls *)
Tick ==
    /\ last.op = "none"
    /\ sweep = NoSweep
    /\ now + TickMinutes <= start + MaxElapsed
    /\ now' = now + TickMinutes
    /\ UNCHANGED <<component, start, alert_states, last_emit, stats, last>>
    /\ UNCHANGED others

Next ==
    \/ CheckAggressive
    \/ CheckModerate
    \/ CheckConservative
    \/ AggressiveCheckSignal
    \/ ModerateCheckSignal
    \/ ConservativeCheckSignal
    \/ Return
    \/ Tick

Spec == Init /\ [][Next]_vars

---------------------------------------------------------------------------
(* Position sizing on its own: the arguments are drawn at the start, and one of
   the two _calculate_position_size methods is applied to them. *)

InitSizing ==
    /\ component = "sizing"
    /\ start \in {15 * 60 + 30}
    /\ now = start
    /\ alert_states = EngineInit
    /\ last_emit = [s \in Strategies |-> [long |-> None, short |-> None]]
    /\ stats = ClassInit
    /\ last = NoCall
    /\ risk_state = RiskInit(start)
    /\ sweep = NoSweep
    /\ fetch = NoFetch
    /\ jobs = NoJobs
    /\ backtest = NoBacktest
    /\ vercel = NoVercel
    /\ control = NoControl
    /\ strategy = AggressiveStrategyInit
    /\ calc \in [op : {"pending"}, strategy_name : Strategies, capital : Capitals,
                 entry_price : Prices, stop_loss : Prices, leverage : Leverages,
                 result : {Size(0, 1)}]

BacktestSizing ==
    /\ calc.op = "pending"
    /\ calc' = [calc EXCEPT !.op = "backtest",
                            !.result = Backtest_calculate_position_size(
                                calc.capital, calc.entry_price, calc.stop_loss, calc.leverage)]
    /\ UNCHANGED <<engine_state, sweep, fetch, jobs, backtest, vercel, control, strategy>>

EngineSizing ==
    /\ calc.op = "pending"
    /\ calc' = [calc EXCEPT !.op = "engine",
                            !.capital = StrategyCapital(calc.strategy_name),
                            !.leverage = LEVERAGE_CAPS[calc.strategy_name],
                            !.result = Engine_calculate_position_size(
                                calc.strategy_name, calc.entry_price, calc.stop_loss)]
    /\ UNCHANGED <<engine_state, sweep, fetch, jobs, backtest, vercel, control, strategy>>

NextSizing == BacktestSizing \/ EngineSizing

SpecSizing == InitSizing /\ [][NextSizing]_vars

---------------------------------------------------------------------------
(* The engine driven through check_all_strategies *)

InitAll ==
    /\ component = "check_all"
    /\ start \in StartTimes
    /\ now = start
    /\ alert_states = EngineInit
    /\ last_emit = [s \in Strategies |-> [long |-> None, short |-> None]]
    /\ stats = ClassInit
    /\ last = NoCall
    /\ calc = NoCalc
    /\ risk_state = RiskInit(start)
    /\ sweep = NoSweep
    /\ fetch = NoFetch
    /\ jobs = NoJobs
    /\ backtest = NoBacktest
    /\ vercel = NoVercel
    /\ control = NoControl
    /\ strategy = AggressiveStrategyInit

CheckAllStrategies ==
    /\ sweep = NoSweep
    /\ \E tc \in SweepTables["conservative_trend_rider"],
          tm \in SweepTables["moderate_ema_crossover"],
          ta \in SweepTables["aggressive_momentum_ignition"] :
          LET tabs == [s \in Strategies |->
                          IF s = "conservative_trend_rider" THEN tc
                          ELSE IF s = "moderate_ema_crossover" THEN tm
                          ELSE ta]
              r == check_all_strategies(alert_states, now, tabs)
          IN  /\ alert_states' = r.alert_states
              /\ sweep' = [calls |-> r.calls, signals |-> r.signals, raised |-> r.raised]
    /\ UNCHANGED <<component, now, start, last_emit, stats, last, calc, risk_state, fetch, jobs, backtest, vercel, control, strategy>>

(* The caller takes the list check_all_strategies returned *)
ReturnAll ==
    /\ sweep # NoSweep
    /\ sweep' = NoSweep
    /\ UNCHANGED <<engine_state, calc, fetch, jobs, backtest, vercel, control, strategy>>

NextAll == CheckAllStrategies \/ ReturnAll \/ Tick

SpecAll == InitAll /\ [][NextAll]_vars

---------------------------------------------------------------------------
(* DataHandler.fetch_ohlcv on its own: calls with any arguments, against an
   exchange that may fail or answer at every attempt *)

InitFetch ==
    /\ component = "fetch"
    /\ start \in {15 * 60 + 30}
    /\ now = start
    /\ alert_states = EngineInit
    /\ last_emit = [s \in Strategies |-> [long |-> None, short |-> None]]
    /\ stats = ClassInit
    /\ last = NoCall
    /\ calc = NoCalc
    /\ risk_state = RiskInit(start)
    /\ sweep = NoSweep
    /\ fetch = NoFetch
    /\ jobs = NoJobs
    /\ backtest = NoBacktest
    /\ vercel = NoVercel
    /\ control = NoControl
    /\ strategy = AggressiveStrategyInit

(* fetch_ohlcv(symbol, timeframe, limit) is entered *)
FetchCall ==
    /\ component = "fetch"
    /\ fetch.outcome # "running"
    /\ \E timeframe \in Timeframes, limit \in Limits :
          fetch' = [NoFetch EXCEPT !.timeframe = timeframe,
                                   !.limit = IF limit = NoLimit THEN CANDLE_LIMIT ELSE limit,
                                   !.outcome = "running"]
    /\ UNCHANGED <<engine_state, calc, sweep, jobs, backtest, vercel, control, strategy>>

(* One iteration of `for attempt in range(MAX_RETRIES)` *)
FetchAttempt ==
    /\ component = "fetch"
    /\ fetch.outcome = "running"
    /\ fetch.attempt < MAX_RETRIES
    /\ \E resp \in Responses(fetch.limit) : fetch' = fetch_attempt(fetch, resp)
    /\ UNCHANGED <<engine_state, calc, sweep, jobs, backtest, vercel, control, strategy>>

NextFetch == FetchCall \/ FetchAttempt

SpecFetch == InitFetch /\ [][NextFetch]_vars

---------------------------------------------------------------------------
(* The scheduler of EnhancedTradingAlertBot. _setup_scheduler adds one interval
   job per enabled strategy to a BackgroundScheduler, each with max_instances=1
   and coalesce=True; the scheduler runs due jobs on the threads of its pool, so
   runs of different jobs overlap. A run evaluates its strategy once per
   trading pair. An evaluation is followed in two steps, before and after the
   network fetch that separates the cross-strategy gate, the first statement
   of check_*, from the rest of the method:
   jobs[S].runs      the runs of job check_S in flight, each with the pair it
                     is at and its position ("gate": about to read the flags,
                     "fetch": past the gate, waiting for its candles)
   jobs[S].skipped   the last tick of check_S found a run in flight and was
                     skipped                                                *)

MaxPairs == 2
max_instances == 1

(* A faulty variant: the job is added with room for a second instance *)
MayStartSecondInstance(instances) == instances < max_instances + 1

(* The executor's test when a job is due: a run is submitted unless the job
   already has max_instances runs in flight *)
MayStart(instances) == instances < max_instances

(* The part of a check_* method after the cross-strategy gate. It reads and
   writes the strategy's own entry of the live alert_states dictionary and no
   other entry, so it is evaluated on that entry and its writes are applied to
   the dictionary as the other threads have left it. *)
AfterRiskGate(strategy_name, as, nowv, t) ==
    LET own == [s \in Strategies |-> IF s = strategy_name THEN as[s] ELSE EngineInit[s]]
        out == CheckOne(strategy_name, own, nowv, t)
    IN  [out EXCEPT !.alert_states = [as EXCEPT ![strategy_name] = out.alert_states[strategy_name]]]

(* The run at position i of `runs` has finished one evaluation: it goes on with
   the next pair, or ends *)
NextPair(runs, i) ==
    IF runs[i].pair < MaxPairs
    THEN [runs EXCEPT ![i] = [pc |-> "gate", pair |-> runs[i].pair + 1]]
    ELSE SubSeq(runs, 1, i - 1) \o SubSeq(runs, i + 1, Len(runs))

InitScheduler ==
    /\ component = "scheduler"
    /\ start \in {15 * 60 + 30}
    /\ now = start
    /\ alert_states = EngineInit
    /\ last_emit = [s \in Strategies |-> [long |-> None, short |-> None]]
    /\ stats = ClassInit
    /\ last = NoCall
    /\ calc = NoCalc
    /\ risk_state = RiskInit(start)
    /\ sweep = NoSweep
    /\ fetch = NoFetch
    /\ jobs = NoJobs
    /\ backtest = NoBacktest
    /\ vercel = NoVercel
    /\ control = NoControl
    /\ strategy = AggressiveStrategyInit

(* The interval trigger of job check_S fires *)
SchedulerTick ==
    /\ component = "scheduler"
    /\ \E S \in Strategies :
          IF MayStart(Len(jobs[S].runs))
          THEN jobs' = [jobs EXCEPT ![S].runs = Append(@, [pc |-> "gate", pair |-> 1]),
                                    ![S].skipped = FALSE]
          ELSE jobs' = [jobs EXCEPT ![S].skipped = TRUE]
    /\ UNCHANGED <<engine_state, calc, sweep, fetch, backtest, vercel, control, strategy>>

(* A run enters check_* and reads the flags of all strategies at the gate *)
JobGate ==
    /\ component = "scheduler"
    /\ \E S \in Strategies : \E i \in 1..Len(jobs[S].runs) :
          /\ jobs[S].runs[i].pc = "gate"
          /\ jobs' = [jobs EXCEPT ![S].runs =
                          IF _check_cross_strategy_risk_controls(alert_states)
                          THEN [@ EXCEPT ![i].pc = "fetch"]
                          ELSE NextPair(@, i)]
    /\ UNCHANGED <<engine_state, calc, sweep, fetch, backtest, vercel, control, strategy>>

(* The candles have arrived: the run evaluates the rest of check_* and the
   method returns *)
JobFinish ==
    /\ component = "scheduler"
    /\ \E S \in Strategies : \E i \in 1..Len(jobs[S].runs) :
          /\ jobs[S].runs[i].pc = "fetch"
          /\ \E t \in SweepTables[S] :
                alert_states' = AfterRiskGate(S, alert_states, now, t).alert_states
          /\ jobs' = [jobs EXCEPT ![S].runs = NextPair(@, i)]
    /\ UNCHANGED <<component, now, start, last_emit, stats, last, risk_state,
                   calc, sweep, fetch, backtest, vercel, control, strategy>>

NextScheduler == SchedulerTick \/ JobGate \/ JobFinish

SpecScheduler == InitScheduler /\ [][NextScheduler]_vars

---------------------------------------------------------------------------
(* The loop of _backtest_conservative_trend_rider, one iteration per candle *)

BacktestRows ==
    [ema : TrendRows, close : {95, 97, 99, 101, 103, 160}, adx : {30}, rsi : {50},
     atr : {1, 2}]

(* Lines 709-749 *)
_check_conservative_long_signal(row) ==
    /\ Gt(row.ema.ema_fast, row.ema.ema_slow)
    /\ Gt(row.close, row.ema.ema_slow)
    /\ Gt(row.adx, ADX_THRESHOLD)
    /\ Lt(row.rsi, RSI_UPPER)

_check_conservative_short_signal(row) ==
    /\ Lt(row.ema.ema_fast, row.ema.ema_slow)
    /\ Lt(row.close, row.ema.ema_slow)
    /\ Gt(row.adx, ADX_THRESHOLD)
    /\ Gt(row.rsi, RSI_LOWER)

(* Lines 751-780. The position dictionary has no 'stop_loss' key, so the risk
   is 1% of the entry and the target 3% away from it. *)
_check_conservative_exit_signal(row, position) ==
    IF position.type = "long"
    THEN \/ row.close * 100 >= position.entry_price * 103
         \/ Lt(row.ema.ema_fast, row.ema.ema_slow)
    ELSE \/ row.close * 100 <= position.entry_price * 97
         \/ Gt(row.ema.ema_fast, row.ema.ema_slow)

(* A faulty variant: the stop follows the price in both directions *)
TrailingStopFollowsPrice(position, row) ==
    IF position.type = "long"
    THEN [position EXCEPT !.trailing_stop = row.close * 10 - TRAILING_STOP_MULTIPLIER_X10 * row.atr]
    ELSE [position EXCEPT !.trailing_stop = row.close * 10 + TRAILING_STOP_MULTIPLIER_X10 * row.atr]

(* Lines 878-897 *)
_update_trailing_stop(position, row) ==
    IF position.type = "long"
    THEN LET new_trailing_stop == row.close * 10 - TRAILING_STOP_MULTIPLIER_X10 * row.atr
         IN  IF new_trailing_stop > position.trailing_stop
             THEN [position EXCEPT !.trailing_stop = new_trailing_stop]
             ELSE position
    ELSE LET new_trailing_stop == row.close * 10 + TRAILING_STOP_MULTIPLIER_X10 * row.atr
         IN  IF new_trailing_stop < position.trailing_stop
             THEN [position EXCEPT !.trailing_stop = new_trailing_stop]
             ELSE position

(* profit_ratio >= level['threshold'] and not level.get('executed', False) *)
LevelReached(position, level, row) ==
    /\ IF position.type = "long"
       THEN row.close * 10 >= level.threshold_x10 * position.entry_price
       ELSE position.entry_price * 10 >= level.threshold_x10 * row.close
    /\ ~level.executed

(* Lines 899-922 *)
_check_profit_scaling_exit(position, levels, row) ==
    \E k \in DOMAIN position.profit_scaling_levels :
        LevelReached(position, levels[position.profit_scaling_levels[k]], row)

(* Lines 924-961: the highest level reached is marked executed, in the
   dictionary the position shares with the configuration, and the size is
   reduced by the caller (line 657) *)
_execute_profit_scaling_exit(b, row) ==
    LET position == b.position
        refs == position.profit_scaling_levels
        reached == {k \in DOMAIN refs : LevelReached(position, b.levels[refs[k]], row)}
    IN  IF reached = {} THEN b
        ELSE LET k == CHOOSE i \in reached : \A j \in reached : i >= j
                 level == b.levels[refs[k]]
             IN  [b EXCEPT !.levels[refs[k]].executed = TRUE,
                           !.position.size = @ - (@ * level.close_pct) \div 100]

(* Lines 584-591 and 610-617: the position dictionary of a new position *)
NewPosition(type, row) ==
    [type |-> type, entry_price |-> row.close, size |-> 100,
     trailing_stop |-> IF type = "long"
                       THEN row.close * 10 - TRAILING_STOP_MULTIPLIER_X10 * row.atr
                       ELSE row.close * 10 + TRAILING_STOP_MULTIPLIER_X10 * row.atr,
     profit_scaling_levels |-> [k \in DOMAIN PROFIT_SCALING_LEVELS |-> k]]

(* Lines 566-659: the body of the loop for the candle `row` *)
BacktestIteration(b, row) ==
    LET seen == [b EXCEPT !.row = row]
    IN  IF b.position.type = "none"
        THEN LET p1 == IF _check_conservative_long_signal(row)
                       THEN NewPosition("long", row) ELSE b.position
                 p2 == IF _check_conservative_short_signal(row)
                       THEN NewPosition("short", row) ELSE p1
             IN  [seen EXCEPT !.position = p2,
                              !.did = IF p2.type = "none" THEN "idle" ELSE "open"]
        ELSE IF _check_conservative_exit_signal(row, b.position)
        THEN [seen EXCEPT !.position = NoPosition, !.did = "exit"]
        ELSE IF TRAILING_STOP_FILTER
        THEN [seen EXCEPT !.position = _update_trailing_stop(b.position, row), !.did = "trail"]
        ELSE IF PROFIT_SCALING_FILTER /\ _check_profit_scaling_exit(b.position, b.levels, row)
        THEN [_execute_profit_scaling_exit(seen, row) EXCEPT !.did = "scale"]
        ELSE [seen EXCEPT !.did = "idle"]

InitBacktest ==
    /\ component = "backtest"
    /\ start \in {15 * 60 + 30}
    /\ now = start
    /\ alert_states = EngineInit
    /\ last_emit = [s \in Strategies |-> [long |-> None, short |-> None]]
    /\ stats = ClassInit
    /\ last = NoCall
    /\ calc = NoCalc
    /\ risk_state = RiskInit(start)
    /\ sweep = NoSweep
    /\ fetch = NoFetch
    /\ jobs = NoJobs
    /\ backtest = NoBacktest
    /\ vercel = NoVercel
    /\ control = NoControl
    /\ strategy = AggressiveStrategyInit

(* One iteration of the loop *)
BacktestStep ==
    /\ component = "backtest"
    /\ \E row \in BacktestRows : backtest' = BacktestIteration(backtest, row)
    /\ UNCHANGED <<engine_state, calc, sweep, fetch, jobs, vercel, control, strategy>>

(* The data is used up: a position still open is closed at the last price
   (lines 670-690). The next backtest of the process starts from here. *)
BacktestEnd ==
    /\ component = "backtest"
    /\ backtest.did # "none"
    /\ backtest' = [backtest EXCEPT !.position = NoPosition, !.did = "none"]
    /\ UNCHANGED <<engine_state, calc, sweep, fetch, jobs, vercel, control, strategy>>

NextBacktest == BacktestStep \/ BacktestEnd

SpecBacktest == InitBacktest /\ [][NextBacktest]_vars

---------------------------------------------------------------------------
(* VercelTradingBot: start() and stop() calls from the request handlers, and the
   trading_loop threads start() creates. A thread is followed one loop
   iteration at a time: the test of `while self.is_running`, then the body and
   the sleep, or the exit. *)

MaxLoops == 3           \* start() is followed until it has created this many threads

InitVercel ==
    /\ component = "vercel"
    /\ start \in {15 * 60 + 30}
    /\ now = start
    /\ alert_states = EngineInit
    /\ last_emit = [s \in Strategies |-> [long |-> None, short |-> None]]
    /\ stats = ClassInit
    /\ last = NoCall
    /\ calc = NoCalc
    /\ risk_state = RiskInit(start)
    /\ sweep = NoSweep
    /\ fetch = NoFetch
    /\ jobs = NoJobs
    /\ backtest = NoBacktest
    /\ vercel = NoVercel
    /\ control = NoControl
    /\ strategy = AggressiveStrategyInit

(* VercelTradingBot.start with _start_trading_logic *)
VercelTradingBot_start(v) ==
    IF v.is_running
    THEN [v EXCEPT !.op = "start", !.result = FALSE]
    ELSE [v EXCEPT !.is_running = TRUE, !.total_signals = 0,
                   !.loops = Append(@, "loop"),
                   !.op = "start", !.result = TRUE]

(* VercelTradingBot.stop *)
VercelTradingBot_stop(v) ==
    IF ~v.is_running
    THEN [v EXCEPT !.op = "stop", !.result = FALSE]
    ELSE [v EXCEPT !.is_running = FALSE, !.op = "stop", !.result = TRUE]

(* One pass of thread i through `while self.is_running`: out of the loop when
   the flag is down, else the body, in which _should_generate_signal answered
   `generate`, and the sleep *)
trading_loop(v, i, generate) ==
    IF ~v.is_running THEN [v EXCEPT !.loops[i] = "done"]
    ELSE IF generate
    THEN [v EXCEPT !.total_signals = @ + 1, !.generated_by = i]
    ELSE v

VercelStart ==
    /\ component = "vercel"
    /\ Len(vercel.loops) < MaxLoops
    /\ vercel' = VercelTradingBot_start(vercel)
    /\ UNCHANGED <<engine_state, calc, sweep, fetch, jobs, backtest, control, strategy>>

VercelStop ==
    /\ component = "vercel"
    /\ vercel' = VercelTradingBot_stop(vercel)
    /\ UNCHANGED <<engine_state, calc, sweep, fetch, jobs, backtest, control, strategy>>

TradingLoop ==
    /\ component = "vercel"
    /\ \E i \in 1..Len(vercel.loops), generate \in BOOLEAN :
          /\ vercel.loops[i] = "loop"
          /\ generate => vercel.total_signals < MaxSignals
          /\ vercel' = trading_loop(vercel, i, generate)
    /\ UNCHANGED <<engine_state, calc, sweep, fetch, jobs, backtest, control, strategy>>

NextVercel == VercelStart \/ VercelStop \/ TradingLoop

SpecVercel == InitVercel /\ [][NextVercel]_vars

---------------------------------------------------------------------------
(* The Telegram control service: TelegramBotController polling for messages and
   the TelegramControlledTradingBot its callback starts and stops. *)

MaxThreads == 2         \* _start_bot is followed until this many threads are alive

(* TELEGRAM_CHAT_ID as the environment gives it, with the chat it names *)
ConfiguredChats == { [text |-> "7", id |-> 7], [text |-> "-8", id |-> -8] }

(* message['chat']['id'] of an incoming message: an integer, a string, or no
   'chat' key at all *)
MessageChats ==
    { [type |-> "int", id |-> i, text |-> ""] : i \in {7, -8, 8} }
    \cup { [type |-> "str", id |-> 0, text |-> t] : t \in {"7", "None"} }
    \cup { [type |-> "missing", id |-> 0, text |-> ""] }

MessageTexts ==
    { [slash |-> TRUE, word |-> w] :
        w \in {"start", "STOP", "stop", "status", "restart", "ping", "bogus"} }
    \cup { [slash |-> FALSE, word |-> "hello"] }

Messages == [chat : MessageChats, text : MessageTexts]

(* str(message.get('chat', {}).get('id')) *)
str(chat) ==
    IF chat.type = "int" THEN ToString(chat.id)
    ELSE IF chat.type = "str" THEN chat.text
    ELSE "None"

(* str(self.chat_id) *)
str_chat_id(chat_id) == IF chat_id = None THEN "None" ELSE chat_id[1]

(* parts[0].lower() *)
lower(word) == IF word = "STOP" THEN "stop" ELSE word

(* A faulty variant of _start_bot: no test of is_running *)
StartBotAlways(b, nowv) ==
    [bot |-> [b EXCEPT !.is_running = TRUE, !.start_time = Some(nowv), !.threads = @ + 1],
     result |-> TRUE]

(* TelegramControlledTradingBot._start_bot; Thread.start() succeeds *)
_start_bot(b, nowv) ==
    IF b.is_running THEN [bot |-> b, result |-> FALSE]
    ELSE [bot |-> [b EXCEPT !.is_running = TRUE, !.start_time = Some(nowv),
                            !.threads = @ + 1],
          result |-> TRUE]

(* TelegramControlledTradingBot._stop_bot; `joined`: the control thread left
   its loop within the 5 seconds of join *)
_stop_bot(b, joined) ==
    IF ~b.is_running THEN [bot |-> b, result |-> FALSE]
    ELSE [bot |-> [b EXCEPT !.is_running = FALSE,
                            !.threads = IF joined /\ @ > 0 THEN @ - 1 ELSE @],
          result |-> TRUE]

(* TelegramControlledTradingBot._handle_bot_control; _get_status returns a
   non-empty string, which is true to `if status` *)
_handle_bot_control(b, command, nowv, joined) ==
    IF command = "start" THEN _start_bot(b, nowv)
    ELSE IF command = "stop" THEN _stop_bot(b, joined)
    ELSE IF command = "status" THEN [bot |-> b, result |-> TRUE]
    ELSE [bot |-> b, result |-> FALSE]

Handled(c, b, result, handler, callbacks, sent) ==
    [c EXCEPT !.bot = b, !.result = result,
              !.handled = [handler |-> handler, callbacks |-> callbacks, sent |-> sent]]

(* TelegramBotController._handle_command and the handlers of command_handlers;
   every branch of a handler ends in one send_message *)
_handle_command(c, cmd, nowv, joined) ==
    IF cmd \in {"start", "stop", "status"}
    THEN IF c.controller.has_callback
         THEN LET r == _handle_bot_control(c.bot, cmd, nowv, joined)
              IN  Handled(c, r.bot, r.result, "_handle_" \o cmd, <<cmd>>, 1)
         ELSE Handled(c, c.bot, c.result, "_handle_" \o cmd, << >>, 1)
    ELSE IF cmd = "restart"
    THEN IF c.controller.has_callback
         THEN LET r1 == _handle_bot_control(c.bot, "stop", nowv, joined)
                  r2 == _handle_bot_control(r1.bot, "start", nowv, joined)
              IN  Handled(c, r2.bot, r2.result, "_handle_restart", <<"stop", "start">>, 1)
         ELSE Handled(c, c.bot, c.result, "_handle_restart", << >>, 1)
    ELSE IF cmd = "ping"
    THEN Handled(c, c.bot, c.result, "_handle_ping", << >>, 1)
    ELSE Handled(c, c.bot, c.result, "none", << >>, 1)

(* A faulty variant of _handle_message: the chat is not looked at *)
HandleMessageFromAnyChat(c, message, nowv, joined) ==
    IF message.text.slash
    THEN _handle_command(c, lower(message.text.word), nowv, joined)
    ELSE Handled(c, c.bot, c.result, "_handle_regular_message", << >>, 1)

(* TelegramBotController._handle_message *)
_handle_message(c, message, nowv, joined) ==
    IF str(message.chat) # str_chat_id(c.controller.chat_id)
    THEN Handled(c, c.bot, c.result, "none", << >>, 0)
    ELSE IF message.text.slash
    THEN _handle_command(c, lower(message.text.word), nowv, joined)
    ELSE Handled(c, c.bot, c.result, "_handle_regular_message", << >>, 1)

(* TelegramControlledTradingBot() with the environment's TELEGRAM_CHAT_ID set or
   not, and a bare TelegramBotController() without a callback *)
InitControl ==
    /\ component = "control"
    /\ start \in {15 * 60 + 30}
    /\ now = start
    /\ alert_states = EngineInit
    /\ last_emit = [s \in Strategies |-> [long |-> None, short |-> None]]
    /\ stats = ClassInit
    /\ last = NoCall
    /\ calc = NoCalc
    /\ risk_state = RiskInit(start)
    /\ sweep = NoSweep
    /\ fetch = NoFetch
    /\ jobs = NoJobs
    /\ backtest = NoBacktest
    /\ vercel = NoVercel
    /\ \E has_callback \in BOOLEAN :
          \/ control = [NoControl EXCEPT !.controller.has_callback = has_callback]
          \/ \E chat \in ConfiguredChats :
                control = [NoControl EXCEPT !.controller.has_callback = has_callback,
                                            !.controller.chat_id = Some(chat.text),
                                            !.controller.is_initialized = TRUE]
    /\ strategy = AggressiveStrategyInit

ControlFrame == UNCHANGED <<engine_state, calc, sweep, fetch, jobs, backtest, vercel, strategy>>

(* A direct _start_bot call, as in test_telegram_controlled_bot. The record of
   a call is kept until the caller has taken the result (ControlReturn). *)
StartBot ==
    /\ component = "control"
    /\ control.op = "none"
    /\ control.bot.threads < MaxThreads
    /\ LET r == _start_bot(control.bot, now)
       IN  control' = [control EXCEPT !.bot = r.bot, !.result = r.result,
                                      !.op = "_start_bot", !.handled = NoHandled,
                                      !.message = NoMessage]
    /\ ControlFrame

StopBot ==
    /\ component = "control"
    /\ control.op = "none"
    /\ \E joined \in BOOLEAN :
          LET r == _stop_bot(control.bot, joined)
          IN  control' = [control EXCEPT !.bot = r.bot, !.result = r.result,
                                         !.op = "_stop_bot", !.handled = NoHandled,
                                         !.message = NoMessage]
    /\ ControlFrame

(* A _run_bot_operations thread finds is_running False and leaves its loop *)
BotThreadEnds ==
    /\ component = "control"
    /\ ~control.bot.is_running
    /\ control.bot.threads > 0
    /\ control' = [control EXCEPT !.bot.threads = @ - 1]
    /\ ControlFrame

(* TelegramBotController.start_polling *)
StartPolling ==
    /\ component = "control"
    /\ control.op = "none"
    /\ control' = IF ~control.controller.is_initialized
                  THEN [control EXCEPT !.op = "start_polling", !.handled = NoHandled,
                                       !.message = NoMessage]
                  ELSE [control EXCEPT !.controller.is_running = TRUE,
                                       !.op = "start_polling", !.handled = NoHandled,
                                       !.message = NoMessage]
    /\ ControlFrame

(* TelegramBotController.stop_polling *)
StopPolling ==
    /\ component = "control"
    /\ control.op = "none"
    /\ control' = [control EXCEPT !.controller.is_running = FALSE,
                                  !.op = "stop_polling", !.handled = NoHandled,
                                  !.message = NoMessage]
    /\ ControlFrame

(* One update of _poll_updates: the message is handed to _handle_message *)
PollUpdate ==
    /\ component = "control"
    /\ control.op = "none"
    /\ control.controller.is_running
    /\ \E message \in Messages, joined \in BOOLEAN :
          LET c == _handle_message(control, message, now, joined)
          IN  /\ c.bot.threads <= MaxThreads
              /\ control' = [c EXCEPT !.op = "_handle_message", !.message = message]
    /\ ControlFrame

(* The caller has taken the result of the last call; the next call starts *)
ControlReturn ==
    /\ component = "control"
    /\ control.op # "none"
    /\ control' = [control EXCEPT !.op = "none"]
    /\ ControlFrame

NextControl ==
    \/ StartBot
    \/ StopBot
    \/ BotThreadEnds
    \/ StartPolling
    \/ StopPolling
    \/ PollUpdate
    \/ ControlReturn
    \/ Tick

SpecControl == InitControl /\ [][NextControl]_vars

---------------------------------------------------------------------------
(* AggressiveMomentumStrategy under update_parameters: the parameters change
   between check_signal calls, and the tables carry the StochRSI columns of
   some parameter values. *)

ParamKeys == {"stoch_rsi_k", "stoch_rsi_d", "rsi_length", "oversold_threshold"}

ParamValues ==
    [stoch_rsi_k |-> {8, 14}, stoch_rsi_d |-> {2, 3}, rsi_length |-> {11, 14},
     oversold_threshold |-> {10, 15}]

(* new_params['parameters']: a dict over some of the keys *)
NewParameters ==
    UNION { {f \in [K -> {8, 14, 2, 3, 11, 10, 15}] : \A k \in K : f[k] \in ParamValues[k]} :
            K \in SUBSET ParamKeys }

(* dict.update *)
DictUpdate(d, new) == [k \in DOMAIN d |-> IF k \in DOMAIN new THEN new[k] ELSE d[k]]

(* AggressiveMomentumStrategy.update_parameters *)
update_parameters(st, new) == [st EXCEPT !.params = DictUpdate(@, new)]

(* BaseStrategy.validate_data on a table that is not empty *)
MissingColumns(columns, required_columns) == {col \in required_columns : col \notin columns}

(* AggressiveMomentumStrategy.check_signal as far as the column reads go *)
ColumnReads(st, columns) ==
    IF MissingColumns(columns, st.required_columns) # {} THEN "validate"
    ELSE IF ~(ReadColumns(st.params) \subseteq columns) THEN "key_error"
    ELSE "read"

(* The tables: OHLCV and the StochRSI columns of some parameter values *)
ParamTables ==
    { BaseColumns \cup ReadColumns([AggressiveParams EXCEPT !.stoch_rsi_k = k,
                                                            !.stoch_rsi_d = d,
                                                            !.rsi_length = n]) :
      k \in ParamValues.stoch_rsi_k, d \in ParamValues.stoch_rsi_d,
      n \in ParamValues.rsi_length }

InitParams ==
    /\ component = "params"
    /\ start \in {15 * 60 + 30}
    /\ now = start
    /\ alert_states = EngineInit
    /\ last_emit = [s \in Strategies |-> [long |-> None, short |-> None]]
    /\ stats = ClassInit
    /\ last = NoCall
    /\ calc = NoCalc
    /\ risk_state = RiskInit(start)
    /\ sweep = NoSweep
    /\ fetch = NoFetch
    /\ jobs = NoJobs
    /\ backtest = NoBacktest
    /\ vercel = NoVercel
    /\ control = NoControl
    /\ strategy = AggressiveStrategyInit

UpdateParameters ==
    /\ component = "params"
    /\ \E new \in NewParameters :
          strategy' = [update_parameters(strategy, new) EXCEPT
                          !.op = "update_parameters", !.columns = {}, !.exit = "none"]
    /\ UNCHANGED <<engine_state, calc, sweep, fetch, jobs, backtest, vercel, control>>

ParamsCheckSignal ==
    /\ component = "params"
    /\ \E columns \in ParamTables :
          strategy' = [strategy EXCEPT !.op = "check_signal", !.columns = columns,
                                       !.exit = ColumnReads(strategy, columns)]
    /\ UNCHANGED <<engine_state, calc, sweep, fetch, jobs, backtest, vercel, control>>

NextParams == UpdateParameters \/ ParamsCheckSignal

SpecParams == InitParams /\ [][NextParams]_vars

---------------------------------------------------------------------------
(* Properties *)

(* The step is a call of `op` (a check_* method or a check_signal method) *)
Called(op) == last.op = "none" /\ last'.op = op

(* The strategies other than S that hold a flag *)
OthersActive(S) ==
    {s \in Strategies \ {S} : alert_states[s].long \/ alert_states[s].short}

(* A sizing call has returned *)
Sized == calc.op \in {"backtest", "engine"}

(* C11: position-size boundedness. For positive capital, entry and stop with
   entry # stop and a leverage cap >= 0, the size lies in [0, capital x 10]
   and does not exceed capital x leverage cap; when entry = stop the size is
   exactly 0. *)
C11_SizeBounded ==
    (Sized /\ calc.capital > 0 /\ calc.entry_price > 0 /\ calc.stop_loss > 0
           /\ calc.leverage >= 0)
    => IF calc.entry_price = calc.stop_loss
       THEN calc.result.num = 0
       ELSE /\ calc.result.den > 0
            /\ calc.result.num >= 0
            /\ calc.result.num <= calc.capital * SAFETY_CAP_MULTIPLE * calc.result.den
            /\ calc.result.num <= calc.capital * calc.leverage * calc.result.den

(* A backtest sizing whose risk-based size (capital x 5: 2% of the capital
   over a stop 0.004 away) exceeds the leverage cap of 3 and is cut to it *)
C11_Witness ==
    /\ calc.op = "backtest"
    /\ calc.capital = 1000
    /\ Abs(calc.entry_price - calc.stop_loss) = 4
    /\ calc.leverage = 3
    /\ calc.result.num = 3000 * calc.result.den

(* C12: position sizing never propagates an invalid input. For any arguments,
   negative capital included, the size returned is 0 or a non-negative capped
   magnitude, never negative. *)
C12_SizeNeverNegative ==
    Sized => (calc.result.den > 0 /\ calc.result.num >= 0)

(* The moderate strategy, engine method and class *)
ModerateOps == {"moderate_ema_crossover", "ModerateEMAStrategy"}

(* C20: moderate reward:risk fidelity. With p = 0.015, every moderate long
   signal with entry E has stop_loss = E x (1 - p) and take_profit =
   E x (1 + 2.5p), and every moderate short signal has stop_loss = E x (1 + p)
   and take_profit = E x (1 - 2.5p), in the engine and in the
   ModerateEMAStrategy class. Levels are in 1/10000 of the price unit, p in
   1/1000. *)
C20_ModerateRewardRisk ==
    [][\A op \in ModerateOps :
          Called(op)
          => LET E == last'.signal.price
                 p == 15
             IN  /\ last'.result = "long"
                    => /\ E > 0
                       /\ last'.signal.stop_loss * 1000 = E * (1000 - p)
                       /\ last'.signal.take_profit * 2000 = E * (2000 + 5 * p)
                 /\ last'.result = "short"
                    => /\ E > 0
                       /\ last'.signal.stop_loss * 1000 = E * (1000 + p)
                       /\ last'.signal.take_profit * 2000 = E * (2000 - 5 * p)]_vars

(* The engine's moderate method returned a short signal at a close of 100:
   stop 101.5, target 96.25 *)
C20_Witness ==
    /\ last.op = "moderate_ema_crossover"
    /\ last.result = "short"
    /\ last.signal = [price |-> 1000000, stop_loss |-> 1015000, take_profit |-> 962500]

(* C21: every long signal of check_conservative_trend_rider has its stop at
   the minimum low of the trailing 5 candles and its target at entry + 3 x
   (entry - stop), so stop <= entry <= target; every short signal has its stop
   at the maximum high of the trailing 5 candles and its target at entry - 3 x
   (stop - entry), so target <= entry <= stop. *)
C21_ConservativeSwingStop ==
    [][Called("conservative_trend_rider")
       => LET sig == last'.signal
              lows == last'.facts.lows
              highs == last'.facts.highs
          IN  /\ last'.result = "long"
                 => /\ \A i \in 1..5 : sig.stop_loss <= lows[i] * 10000
                    /\ \E i \in 1..5 : sig.stop_loss = lows[i] * 10000
                    /\ sig.take_profit = sig.price + 3 * (sig.price - sig.stop_loss)
                    /\ sig.stop_loss <= sig.price /\ sig.price <= sig.take_profit
              /\ last'.result = "short"
                 => /\ \A i \in 1..5 : sig.stop_loss >= highs[i] * 10000
                    /\ \E i \in 1..5 : sig.stop_loss = highs[i] * 10000
                    /\ sig.take_profit = sig.price - 3 * (sig.stop_loss - sig.price)
                    /\ sig.take_profit <= sig.price /\ sig.price <= sig.stop_loss]_vars

(* A conservative long signal at a close of 101 whose stop, 97, is the low of
   the candle four rows back, not of the current one: target 113 *)
C21_Witness ==
    /\ last.op = "conservative_trend_rider"
    /\ last.result = "long"
    /\ last.facts.lows = <<98, 97, 99, 98, 98>>
    /\ last.signal = [price |-> 1010000, stop_loss |-> 970000, take_profit |-> 1130000]

(* C23: the state with two flagged strategies is absorbing. From a state in
   which two or more strategies hold an active flag, every check_* call of the
   engine returns None at the cross-strategy gate, before its reset block, and
   no step changes alert_states: no flag is cleared and no signal is emitted
   from then on. *)
C23_AbsorbingAtTwoActive ==
    [][ActiveTrades(alert_states) >= MAX_CONCURRENT_TRADES
       => /\ alert_states' = alert_states
          /\ \A S \in Strategies :
                Called(S) => (last'.result = "None" /\ last'.exit = "risk")]_vars

(* With two strategies flagged, a call of a flagged strategy whose crossover no
   longer holds on the current candle has returned at the gate, its flag kept *)
C23_Witness ==
    /\ ActiveTrades(alert_states) = MAX_CONCURRENT_TRADES
    /\ last.op \in Strategies
    /\ last.exit = "risk"
    /\ last.facts.data = "ok"
    /\ alert_states[last.op].long
    /\ ~last.facts.above

(* C25: the conservative class never signals. ConservativeTrendStrategy.check_signal
   returns None for every input table and leaves the class statistics as they
   were: the golden cross needs fast <= slow on the previous candle, the trend
   consistency fast > slow on each of the last 5 candles, the previous one among
   them; the death cross symmetrically. *)
C25_ConservativeClassNeverSignals ==
    [][Called("ConservativeTrendStrategy")
       => (last'.result = "None" /\ last'.signal = NoSignal /\ stats' = stats)]_vars

(* A call on a 250-row table with every column, a golden cross on the last two
   candles and ADX and RSI in range returned None *)
C25_Witness ==
    /\ last.op = "ConservativeTrendStrategy"
    /\ last.facts.data = "ok"
    /\ last.facts.rows >= 5
    /\ last.facts.golden_cross
    /\ last.facts.long_rest_ok
    /\ last.result = "None"

(* C28: one generating loop. After any sequence of start() and stop() calls a
   signal is generated only by the trading_loop thread of the latest start():
   a loop started by an earlier start() generates nothing once stop() has been
   called, even when start() is called again before that loop wakes. *)
C28_OnlyLatestLoopGenerates ==
    [][vercel'.total_signals = vercel.total_signals + 1
       => vercel'.generated_by = Len(vercel.loops)]_vars

(* The step is a call of `op` on the control service *)
ControlCalled(op) == control.op = "none" /\ control'.op = op

(* What a _start_bot call does: True and running when the bot was not running,
   False and nothing changed when it was *)
StartOutcome ==
    /\ control'.result = ~control.bot.is_running
    /\ control'.bot.is_running
    /\ control.bot.is_running => control'.bot = control.bot
    /\ ~control.bot.is_running => control'.bot.start_time = Some(now)

StopOutcome ==
    /\ control'.result = control.bot.is_running
    /\ ~control'.bot.is_running
    /\ ~control.bot.is_running => control'.bot = control.bot

(* C27: start/stop lifecycle. _start_bot returns True and sets is_running
   exactly when the bot was not running, and returns False leaving the bot as
   it was when it was running; _stop_bot returns True and clears is_running
   exactly when the bot was running, and returns False otherwise; so a second
   start, or a second stop, in a row changes nothing. The same holds when the
   call comes from the /start or /stop handler. *)
C27_StartStopLifecycle ==
    [][/\ ControlCalled("_start_bot") => StartOutcome
       /\ ControlCalled("_stop_bot") => StopOutcome
       /\ (ControlCalled("_handle_message") /\ control'.handled.callbacks = <<"start">>)
          => StartOutcome
       /\ (ControlCalled("_handle_message") /\ control'.handled.callbacks = <<"stop">>)
          => StopOutcome]_vars

(* A second _start_bot call, later than the first, returned False and left the
   start time of the first *)
C27_Witness ==
    /\ control.op = "_start_bot"
    /\ ~control.result
    /\ control.bot.is_running
    /\ control.bot.start_time = Some(start)
    /\ now > start

(* The message's chat is the configured chat *)
SameChat(chat, chat_id) ==
    \E conf \in ConfiguredChats :
        /\ chat_id = Some(conf.text)
        /\ \/ chat.type = "int" /\ chat.id = conf.id
           \/ chat.type = "str" /\ chat.text = conf.text

(* C29: only the configured chat commands the bot. For a message whose chat id
   is not the configured chat id, _handle_message invokes no command handler,
   does not call bot_control_callback and sends no message; the bot is left as
   it was. *)
C29_OnlyConfiguredChat ==
    [][(ControlCalled("_handle_message") /\ ~SameChat(control'.message.chat, control.controller.chat_id))
       => /\ control'.handled = NoHandled
          /\ control'.bot = control.bot
          /\ control'.result = control.result]_vars

(* /start from chat 8 reached a controller configured for another chat, with a
   callback and a stopped bot: nothing was done *)
C29_Witness ==
    /\ control.op = "_handle_message"
    /\ control.message.chat = [type |-> "int", id |-> 8, text |-> ""]
    /\ control.message.text = [slash |-> TRUE, word |-> "start"]
    /\ control.controller.has_callback
    /\ control.handled = NoHandled
    /\ ~control.bot.is_running

(* C30: required columns follow the parameters. In every state reachable
   through update_parameters calls the required_columns validate_data is given
   name exactly the StochRSI columns check_signal reads for the current
   stoch_rsi_k, stoch_rsi_d and rsi_length. *)
C30_RequiredColumnsCurrent ==
    strategy.required_columns \ BaseColumns = ReadColumns(strategy.params)

(* A check_all_strategies call has returned or raised *)
Swept == sweep # NoSweep

IsWanted(call) == call.wants # "None"
IsWantedUnderCap(call) == call.wants # "None" /\ call.active < MAX_CONCURRENT_TRADES
AsSignal(call) == [strategy |-> call.strategy, signal_type |-> call.wants]

(* The signals a list of calls should give, one per selected call, in order *)
RECURSIVE SignalsOf(_)
SignalsOf(calls) ==
    IF calls = << >> THEN << >>
    ELSE <<AsSignal(Head(calls))>> \o SignalsOf(Tail(calls))

CalledInPriorityOrder ==
    /\ Len(sweep.calls) = 3
    /\ sweep.calls[1].strategy = "conservative_trend_rider"
    /\ sweep.calls[2].strategy = "moderate_ema_crossover"
    /\ sweep.calls[3].strategy = "aggressive_momentum_ignition"

(* C14 as stated: check_all_strategies evaluates conservative, moderate,
   aggressive in that order and returns, in that order, the signal of every
   strategy whose own conditions are met; an earlier strategy's signal in the
   same call does not suppress a later strategy. *)
C14_EveryWantedSignal ==
    Swept => /\ CalledInPriorityOrder
             /\ sweep.signals = SignalsOf(SelectSeq(sweep.calls, IsWanted))

(* C14, amended: check_all_strategies calls conservative, moderate, aggressive
   in that order and returns, in that order, the signal of every strategy
   whose own conditions are met and which is called with fewer than two
   strategies holding a flag; flags set earlier in the same call count. *)
C14_WantedSignalsUnderCap ==
    Swept => /\ CalledInPriorityOrder
             /\ sweep.signals = SignalsOf(SelectSeq(sweep.calls, IsWantedUnderCap))

(* One call in which the conservative and the moderate strategy both emitted
   and the aggressive strategy, its own long conditions met, got None at the
   cross-strategy gate *)
C14_Witness ==
    /\ Len(sweep.calls) = 3
    /\ sweep.calls[1].active = 0
    /\ sweep.calls[3].wants = "long"
    /\ sweep.calls[3].exit = "risk"
    /\ sweep.signals = <<[strategy |-> "conservative_trend_rider", signal_type |-> "long"],
                         [strategy |-> "moderate_ema_crossover", signal_type |-> "short"]>>

(* C24: at most two of three. Under sequential check_* calls from the initial
   engine state at most 2 of the 3 strategies hold an active flag, before every
   call of a check_all_strategies sweep and after it, and one
   check_all_strategies call returns at most 2 signals. *)
C24_AtMostTwoSignals ==
    /\ ActiveTrades(alert_states) <= 2
    /\ \A i \in 1..Len(sweep.calls) : sweep.calls[i].active <= 2
    /\ Len(sweep.signals) <= 2

(* A sweep that returned two signals and left two strategies flagged, the third
   strategy stopped at the gate with its short conditions met *)
C24_Witness ==
    /\ Len(sweep.signals) = 2
    /\ ActiveTrades(alert_states) = 2
    /\ sweep.calls[3].wants = "short"
    /\ sweep.calls[3].exit = "risk"

(* C16: failure isolation. Within one check_all_strategies call an exception
   raised inside one strategy's evaluation is contained: the call does not
   raise, and every strategy of the priority order is evaluated, the ones
   after the failure included. *)
C16_FailureIsolation ==
    Swept => (~sweep.raised /\ CalledInPriorityOrder)

(* The conservative fetch failed after all retries, and the moderate and the
   aggressive strategy, evaluated after it, both emitted *)
C16_Witness ==
    /\ Len(sweep.calls) = 3
    /\ sweep.calls[1].exit = "fetch_error"
    /\ sweep.calls[1].result = "None"
    /\ sweep.calls[2].result = "long"
    /\ sweep.calls[3].result = "short"
    /\ Len(sweep.signals) = 2

(* C17: under concurrent evaluations of different strategies no strategy sets
   its flag while two others hold one: no interleaving reaches a state with
   all three strategies active.  The code takes no lock between the gate and
   the flag update. *)
C17_NeverAllThreeActive ==
    ActiveTrades(alert_states) <= MAX_CONCURRENT_TRADES

(* C18: at most one run of a strategy's job is in flight; a tick that fires
   while a run is in flight starts no second run, and no run starts except at
   a tick that finds none in flight (a skipped tick is not made up for). *)
C18_OneRunInFlight ==
    [][\A S \in Strategies :
         /\ Len(jobs[S].runs) <= 1 /\ Len(jobs'[S].runs) <= 1
         /\ (jobs[S].runs # << >> /\ ~jobs[S].skipped /\ jobs'[S].skipped)
                => jobs'[S].runs = jobs[S].runs
         /\ Len(jobs'[S].runs) > Len(jobs[S].runs)
                => (jobs[S].runs = << >> /\ ~jobs'[S].skipped)]_vars

(* A tick of the aggressive job was skipped while its run, past the gate, is
   still waiting for its candles *)
C18_Witness ==
    LET job == jobs["aggressive_momentum_ignition"]
    IN  /\ job.skipped
        /\ Len(job.runs) = 1
        /\ job.runs[1].pc = "fetch"

(* C19: an evaluation of strategy S mutates only alert_states[S]: after any
   check_* call of S the long, short and last_alert_time entries of the two
   other strategies, and the risk_state, are as they were before the call. *)
C19_FrameEffect ==
    [][\A S \in Strategies :
          Called(S) => /\ \A s \in Strategies \ {S} : alert_states'[s] = alert_states[s]
                       /\ risk_state' = risk_state]_vars

(* The moderate strategy emitted a long signal, changing its own entry, while
   another strategy held a short flag *)
C19_Witness ==
    /\ last.op = "moderate_ema_crossover"
    /\ last.result = "long"
    /\ ~last.pre_long
    /\ alert_states["moderate_ema_crossover"].long
    /\ \E s \in Strategies \ {"moderate_ema_crossover"} :
          alert_states[s].short /\ alert_states[s].last_alert_time # None

(* C22: trailing-stop ratchet. While a position stays open, over any
   sequence of _update_trailing_stop calls, a long position's trailing stop
   never decreases and a short position's never increases, whatever the
   successive closes and ATR values. *)
C22_TrailingStopRatchet ==
    [][(backtest.position.type # "none" /\ backtest'.position.type = backtest.position.type)
       => /\ backtest.position.type = "long"
             => backtest'.position.trailing_stop >= backtest.position.trailing_stop
          /\ backtest.position.type = "short"
             => backtest'.position.trailing_stop <= backtest.position.trailing_stop]_vars

(* _update_trailing_stop was called on a long position with a candle whose
   candidate stop lies below the stop reached earlier, which is above the stop
   set at entry *)
C22_Witness ==
    LET position == backtest.position
    IN  /\ backtest.did = "trail"
        /\ position.type = "long"
        /\ position.entry_price = 101
        /\ position.trailing_stop = 1005
        /\ backtest.row.close * 10 - TRAILING_STOP_MULTIPLIER_X10 * backtest.row.atr < 1005

(* C26: in the conservative backtest every newly opened position starts with
   all its profit-scaling levels unexecuted, so each level can fire once per
   position: on a candle at which the profit ratio of the open position
   reaches the threshold of a level not yet executed, a level is marked
   executed.  In the code the exit test and the trailing-stop branch come
   first, and no level ever fires. *)
C26_LevelsFirePerPosition ==
    [][/\ (backtest.position.type = "none" /\ backtest'.position.type # "none")
          => \A k \in DOMAIN backtest'.position.profit_scaling_levels :
                ~backtest'.levels[backtest'.position.profit_scaling_levels[k]].executed
       /\ (backtest.position.type # "none" /\ backtest'.did # "none"
              /\ _check_profit_scaling_exit(backtest.position, backtest.levels, backtest'.row))
          => \E k \in DOMAIN backtest.levels :
                backtest'.levels[k].executed /\ ~backtest.levels[k].executed]_vars

(* The call has ended, by a return or by an exception *)
FetchEnded == fetch.outcome \in {"df", "None", "raised"}

(* The attempts that raised *)
FailedAttempts == {i \in 1..Len(fetch.responses) : fetch.responses[i].raises}

(* fetch_ohlcv makes at most MAX_RETRIES attempts *)
AttemptsBounded == Len(fetch.responses) <= MAX_RETRIES

(* Every failed attempt that is followed by another one is followed by a sleep
   of RETRY_DELAY seconds, and nothing else sleeps *)
DelayFixed ==
    fetch.slept = RETRY_DELAY *
        (IF fetch.outcome = "raised" THEN Cardinality(FailedAttempts) - 1
                                     ELSE Cardinality(FailedAttempts))

(* C15: fetch_ohlcv makes at most MAX_RETRIES attempts with a fixed RETRY_DELAY
   between them, and when every attempt fails it returns None to the caller
   rather than raising.  The code re-raises the last exception. *)
C15_RetryThenNone ==
    /\ AttemptsBounded
    /\ DelayFixed
    /\ (FetchEnded /\ Cardinality(FailedAttempts) = MAX_RETRIES) => fetch.outcome = "None"

(* C1: for every strategy, after any sequence of check_* calls from the freshly
   constructed engine, the long flag and the short flag are never both true. *)
C1_MutualExclusion ==
    \A S \in Strategies : ~(alert_states[S].long /\ alert_states[S].short)

(* A short signal was emitted while the long flag was set, and the long flag
   is cleared *)
C1_Witness ==
    \E S \in Strategies :
        /\ last.op = S
        /\ last.result = "short"
        /\ last.pre_long
        /\ alert_states[S].short
        /\ ~alert_states[S].long

(* C2: cooldown monotonicity. A check_* call of strategy S that emits a signal
   of direction d, when an earlier call of S emitted a signal of direction d at
   time T, happens at T + ALERT_COOLDOWN_MINUTES or later. *)
C2_CooldownMonotonic ==
    [][\A S \in Strategies, d \in Directions :
          (Called(S) /\ last'.result = d /\ last_emit[S][d] # None)
          => now >= last_emit[S][d][1] + ALERT_COOLDOWN_MINUTES]_vars

(* A strategy emitted a signal of a direction for the second time *)
C2_Witness ==
    \E S \in Strategies :
        /\ last.op = S
        /\ last.result \in Directions
        /\ last.again
        /\ now >= start + ALERT_COOLDOWN_MINUTES

(* C3: cross-strategy cap. When two strategies hold a flag, a check_* call of
   the third strategy returns None and leaves alert_states unchanged, whatever
   its data. *)
C3_CrossStrategyCap ==
    [][\A S \in Strategies :
          (Called(S) /\ Cardinality(OthersActive(S)) >= 2)
          => (last'.result = "None" /\ alert_states' = alert_states)]_vars

(* The third strategy was called on a table satisfying its long conditions
   while the two others held a flag, and it returned None at the risk gate *)
C3_Witness ==
    \E S \in Strategies :
        /\ last.op = S
        /\ Cardinality(OthersActive(S)) = 2
        /\ ~alert_states[S].long /\ ~alert_states[S].short
        /\ last.facts.long_ok
        /\ last.exit = "risk"
        /\ last.result = "None"

(* C4: reset rule. On every check_* call of strategy S, whatever gate or filter
   applies, a flag that is true before the call is false after it when the
   crossover does not hold on the current candle: fast not above slow for long,
   fast not below slow for short. *)
C4_ResetOnEveryCall ==
    [][\A S \in Strategies :
          (Called(S) /\ last'.facts.data = "ok")
          => /\ (alert_states[S].long /\ ~last'.facts.above) => ~alert_states'[S].long
             /\ (alert_states[S].short /\ ~last'.facts.below) => ~alert_states'[S].short]_vars

(* C5: indicator error abstention. When a derived indicator value the strategy
   reads on the current row is NaN, the check_* call returns None and leaves
   alert_states unchanged. *)
C5_NaNAbstains ==
    [][\A S \in Strategies :
          (Called(S) /\ last'.facts.nan)
          => (last'.result = "None" /\ alert_states' = alert_states)]_vars

(* C6: idempotent abstention. A call given a table with fewer than 2 rows, or a
   table lacking a required derived column, returns None and changes neither
   alert_states nor the classes' signals_generated and last_signal_time; so a
   repeated call starts from the same state and gives the same result. *)
C6_IdempotentAbstention ==
    [][\A op \in Strategies \cup Classes :
          (Called(op) /\ last'.facts.data \in {"none", "dropped", "nocols"})
          => (last'.result = "None" /\ alert_states' = alert_states /\ stats' = stats)]_vars

(* The aggressive strategy held its long flag and was called on a table without
   the STOCHRSI columns: the call got as far as reading them, and the flag is
   still set *)
C6_Witness ==
    /\ last.op = "aggressive_momentum_ignition"
    /\ last.facts.data = "nocols"
    /\ last.exit = "key_error"
    /\ last.pre_long
    /\ last.result = "None"
    /\ alert_states["aggressive_momentum_ignition"].long

(* C7: emission postcondition. When a check_* call of strategy S returns a
   signal of direction d, the flag of d was false before the call and is true
   after it, last_alert_time is the evaluation time, and the flag of the
   opposite direction is false. *)
C7_EmissionPostcondition ==
    [][\A S \in Strategies, d \in Directions :
          (Called(S) /\ last'.result = d)
          => /\ ~alert_states[S][d]
             /\ alert_states'[S][d]
             /\ alert_states'[S].last_alert_time = Some(now)
             /\ ~alert_states'[S][Opposite(d)]]_vars

(* The conservative strategy emitted a long signal while its short flag was
   set, later than its first alert *)
C7_Witness ==
    /\ last.op = "conservative_trend_rider"
    /\ last.result = "long"
    /\ last.pre_short
    /\ now > start
    /\ alert_states["conservative_trend_rider"] =
           [long |-> TRUE, short |-> FALSE, last_alert_time |-> Some(now)]

(* The gate on the clock that check_* of strategy S passes before its blocks *)
ClockGateOpen(S) ==
    IF S = "aggressive_momentum_ignition" THEN _check_time_filter(now)
    ELSE IF S = "moderate_ema_crossover" THEN _check_session_filter(now)
    ELSE TRUE

(* The long block of strategy S is entered *)
LongEligible(S) ==
    /\ ActiveTrades(alert_states) < MAX_CONCURRENT_TRADES
    /\ ClockGateOpen(S)
    /\ ~alert_states[S].long
    /\ (alert_states[S].last_alert_time = None
        \/ now - alert_states[S].last_alert_time[1] >= ALERT_COOLDOWN_MINUTES)

(* C8: each call emits at most one signal (a check_* call sets at most one flag
   and none when it returns None, a check_signal call counts one signal exactly
   when it returns one), and the long block goes first: a call whose long
   conditions are satisfied and eligible returns the long signal and sets only
   the long flag, whatever the short conditions are. *)
C8_OneSignalLongFirst ==
    [][/\ \A S \in Strategies :
             Called(S)
             => /\ Cardinality({d \in Directions :
                                   alert_states'[S][d] /\ ~alert_states[S][d]}) <= 1
                /\ (last'.result = "None"
                    => \A d \in Directions : alert_states'[S][d] => alert_states[S][d])
                /\ (last'.facts.long_ok /\ LongEligible(S))
                   => /\ last'.result = "long"
                      /\ alert_states'[S].long
                      /\ ~alert_states'[S].short
       /\ \A c \in Classes :
             Called(c)
             => /\ stats'[c].signals_generated =
                       stats[c].signals_generated
                       + (IF last'.result \in Directions THEN 1 ELSE 0)
                /\ last'.facts.long_ok => last'.result = "long"]_vars

(* The moderate strategy, with both directions eligible, was called on a table
   satisfying its long conditions and set its long flag only *)
C8_Witness ==
    /\ last.op = "moderate_ema_crossover"
    /\ ~last.pre_long /\ ~last.pre_short
    /\ last.facts.long_ok
    /\ last.result = "long"
    /\ alert_states["moderate_ema_crossover"].long
    /\ ~alert_states["moderate_ema_crossover"].short

(* C13: aggressive long trigger. When previous %K < previous %D, current %K >
   current %D, previous %K and %D are both below the oversold threshold, the
   current volume is at least the rolling average times the multiplier
   (equality included), every other gate passes, the long flag is clear and
   the cooldown has elapsed, check_aggressive_momentum_ignition returns a long
   signal with stop_loss = close x 0.992 and take_profit = close x 1.015. *)
C13_AggressiveLongTrigger ==
    [][(/\ Called("aggressive_momentum_ignition")
        /\ last'.facts.long_rest
        /\ last'.facts.volume_ge
        /\ LongEligible("aggressive_momentum_ignition"))
       => /\ last'.result = "long"
          /\ last'.signal.stop_loss * 1000 = last'.signal.price * 992
          /\ last'.signal.take_profit * 1000 = last'.signal.price * 1015]_vars

(* C9: conservative reset. When the conservative long flag is true and on the
   current candle the fast EMA is below the slow EMA, the
   check_conservative_trend_rider call leaves the long flag false, and it
   returns a short signal only if the short conditions are met. *)
C9_ConservativeReset ==
    [][(/\ Called("conservative_trend_rider")
        /\ alert_states["conservative_trend_rider"].long
        /\ last'.facts.data = "ok"
        /\ last'.facts.below)
       => /\ ~alert_states'["conservative_trend_rider"].long
          /\ (last'.result = "short" => last'.facts.short_ok)]_vars

(* C10: moderate session gate. When the hour of the clock is outside 12-20,
   check_moderate_ema_crossover returns None, even on a table satisfying every
   condition, and leaves alert_states unchanged. *)
C10_SessionGate ==
    [][(/\ Called("moderate_ema_crossover")
        /\ (HourOfDay(now) < SESSION_START_HOUR \/ HourOfDay(now) > SESSION_END_HOUR))
       => (last'.result = "None" /\ alert_states' = alert_states)]_vars

(* The moderate strategy was called at 21:00 on a table satisfying its long
   conditions, with no flag set anywhere, and returned None at the session gate *)
C10_Witness ==
    /\ last.op = "moderate_ema_crossover"
    /\ HourOfDay(now) = 21
    /\ last.facts.long_ok
    /\ ActiveTrades(alert_states) = 0
    /\ last.exit = "session"
    /\ last.result = "None"

====
